---- MODULE Spec2Model ----
(***************************************************************************)
(* Model of the SPED auditor's DIFAL 2551/2556 audit (src/app.py):         *)
(* the streaming record parser auditoria_difal_text, the adjustment        *)
(* collector coletar_ajustes, the classifier eh_ajuste_difal, the CT-e     *)
(* parser cte_parse and the helpers they call.                             *)
(*                                                                         *)
(* Text is modelled character by character: a Python str is a sequence of  *)
(* one-character strings, so that strip, upper, split, the regular         *)
(* expressions and the numeric parser are computed as the code computes    *)
(* them.  The comment after a character tuple gives the text it spells.    *)
(***************************************************************************)
EXTENDS Integers, Sequences, FiniteSets, TLC

(***************************************************************************)
(* Bounds of the model.                                                    *)
(***************************************************************************)
\* the number of lines of an input file
MaxLines == 4

\* the number of characters of a generated numeric string
MaxLen == 3

(***************************************************************************)
(* Python str primitives.                                                  *)
(***************************************************************************)
\* the characters str.strip() removes and the regular expression \s matches
Whitespace == {" ", "\t"}

Digits == {"0", "1", "2", "3", "4", "5", "6", "7", "8", "9"}

UpperLetters ==
    <<"A","B","C","D","E","F","G","H","I","J","K","L","M",
      "N","O","P","Q","R","S","T","U","V","W","X","Y","Z","Ç","Ã","É","Í">>

LowerLetters ==
    <<"a","b","c","d","e","f","g","h","i","j","k","l","m",
      "n","o","p","q","r","s","t","u","v","w","x","y","z","ç","ã","é","í">>

\* str.upper() on one character
UpperChar(c) ==
    IF \E i \in DOMAIN LowerLetters : LowerLetters[i] = c
    THEN UpperLetters[CHOOSE i \in DOMAIN LowerLetters : LowerLetters[i] = c]
    ELSE c

\* str.lower() on one character
LowerChar(c) ==
    IF \E i \in DOMAIN UpperLetters : UpperLetters[i] = c
    THEN LowerLetters[CHOOSE i \in DOMAIN UpperLetters : UpperLetters[i] = c]
    ELSE c

Upper(s) == [i \in DOMAIN s |-> UpperChar(s[i])]

Lower(s) == [i \in DOMAIN s |-> LowerChar(s[i])]

\* the index of the first character of s from i on that is not whitespace
RECURSIVE FirstInk(_, _)
FirstInk(s, i) ==
    IF i <= Len(s) /\ s[i] \in Whitespace THEN FirstInk(s, i + 1) ELSE i

\* the index of the last character of s up to i that is not whitespace
RECURSIVE LastInk(_, _)
LastInk(s, i) ==
    IF i >= 1 /\ s[i] \in Whitespace THEN LastInk(s, i - 1) ELSE i

\* str.strip()
Strip(s) == SubSeq(s, FirstInk(s, 1), LastInk(s, Len(s)))

\* str.replace(c, r) for a one-character c
RECURSIVE Replace(_, _, _)
Replace(s, c, r) ==
    IF s = <<>> THEN <<>>
    ELSE (IF Head(s) = c THEN r ELSE <<Head(s)>>) \o Replace(Tail(s), c, r)

\* the parts of s from index start on, i the index being looked at
RECURSIVE SplitFrom(_, _, _, _)
SplitFrom(s, sep, start, i) ==
    IF i > Len(s) THEN <<SubSeq(s, start, Len(s))>>
    ELSE IF s[i] = sep
    THEN <<SubSeq(s, start, i - 1)>> \o SplitFrom(s, sep, i + 1, i + 1)
    ELSE SplitFrom(s, sep, start, i + 1)

\* str.split(sep) for a one-character sep: always at least one part
Split(s, sep) == SplitFrom(s, sep, 1, 1)

\* kw in s
Contains(s, kw) ==
    \/ kw = <<>>
    \/ \E i \in 0..(Len(s) - Len(kw)) :
           s[i + 1] = kw[1] /\ SubSeq(s, i + 1, i + Len(kw)) = kw

\* parts[idx] if len(parts) > idx else "" (idx is Python's 0-based index)
Field(parts, idx) == IF Len(parts) > idx THEN parts[idx + 1] ELSE <<>>


(***************************************************************************)
(* Numbers.  A float is held as the decimal mant / 10^exp it was written   *)
(* as (exp is negative for a multiple of ten), normalised so that equal    *)
(* numbers are equal values; special names the three special floats, and   *)
(* the outcome of a float() that raises.                                   *)
(***************************************************************************)
Special(name) == [mant |-> 0, exp |-> 0, special |-> name]

ValueError == Special("ValueError")

RECURSIVE Pow10(_)
Pow10(k) == IF k = 0 THEN 1 ELSE 10 * Pow10(k - 1)

\* m / 10^e with a mantissa that is no multiple of ten
RECURSIVE Normalise(_, _)
Normalise(m, e) ==
    IF m = 0 THEN [mant |-> 0, exp |-> 0, special |-> ""]
    ELSE IF m % 10 = 0 THEN Normalise(m \div 10, e - 1)
    ELSE [mant |-> m, exp |-> e, special |-> ""]

\* 0.0
Zero == [mant |-> 0, exp |-> 0, special |-> ""]

DigitValue(c) == CHOOSE d \in 0..9 : <<"0","1","2","3","4","5","6","7","8","9">>[d + 1] = c

\* a run of digits in which single underscores may separate digits
IsDigitGroup(g) ==
    /\ g # <<>>
    /\ \A i \in DOMAIN g : g[i] \in Digits \cup {"_"}
    /\ g[1] \in Digits /\ g[Len(g)] \in Digits
    /\ \A i \in 1..(Len(g) - 1) : ~(g[i] = "_" /\ g[i + 1] = "_")

RECURSIVE DigitsValue(_)
DigitsValue(g) ==
    IF g = <<>> THEN 0
    ELSE IF g[Len(g)] = "_" THEN DigitsValue(SubSeq(g, 1, Len(g) - 1))
    ELSE 10 * DigitsValue(SubSeq(g, 1, Len(g) - 1)) + DigitValue(g[Len(g)])

NumDigits(g) == Cardinality({i \in DOMAIN g : g[i] \in Digits})

\* s without its leading sign, and whether that sign is a minus
Unsigned(t) == IF t # <<>> /\ t[1] \in {"+", "-"} THEN Tail(t) ELSE t

Negative(t) == t # <<>> /\ t[1] = "-"

\* the position of the first "e" or "E" of body, 0 when there is none
ExponentAt(body) ==
    IF \A i \in DOMAIN body : body[i] \notin {"e", "E"} THEN 0
    ELSE CHOOSE i \in DOMAIN body :
             /\ body[i] \in {"e", "E"}
             /\ \A j \in 1..(i - 1) : body[j] \notin {"e", "E"}

\* m / 10^e for any integer e
Scale(m, e) == Normalise(m, e)

\* ipart.fpart * 10^x
Decimal(ipart, fpart, x) ==
    Scale(DigitsValue(ipart) * Pow10(NumDigits(fpart)) + DigitsValue(fpart),
          NumDigits(fpart) - x)

\* the number written as mparts[1].mparts[2], with the exponent digits edig
\* (negated when eneg) when hasE
FloatParts(mparts, hasE, eneg, edig) ==
    IF /\ Len(mparts) <= 2
       /\ mparts[1] = <<>> \/ IsDigitGroup(mparts[1])
       /\ Field(mparts, 1) = <<>> \/ IsDigitGroup(Field(mparts, 1))
       /\ mparts[1] # <<>> \/ Field(mparts, 1) # <<>>
       /\ hasE => IsDigitGroup(edig)
    THEN Decimal(mparts[1], Field(mparts, 1),
                 IF ~hasE THEN 0
                 ELSE IF eneg THEN 0 - DigitsValue(edig) ELSE DigitsValue(edig))
    ELSE ValueError

\* body split at its exponent mark, which is at position k (0: none)
FloatBody(body, k) ==
    IF k = 0 THEN FloatParts(Split(body, "."), FALSE, FALSE, <<>>)
    ELSE FloatParts(Split(SubSeq(body, 1, k - 1), "."), TRUE,
                    Negative(SubSeq(body, k + 1, Len(body))),
                    Unsigned(SubSeq(body, k + 1, Len(body))))

FloatUnsigned(body) ==
    IF Lower(body) \in {<<"i","n","f">>, <<"i","n","f","i","n","i","t","y">>}
    THEN Special("inf")
    ELSE IF Lower(body) = <<"n","a","n">> THEN Special("nan")
    ELSE FloatBody(body, ExponentAt(body))

\* -v when neg
Signed(neg, v) ==
    IF ~neg \/ v.special \in {"nan", "ValueError"} THEN v
    ELSE IF v.special = "inf" THEN Special("-inf")
    ELSE [v EXCEPT !.mant = 0 - v.mant]

FloatStripped(t) == Signed(Negative(t), FloatUnsigned(Unsigned(t)))

\* the built-in float(str): the value, or ValueError when float raises
Float(s) == FloatStripped(Strip(s))

\* v > 0 for a float v
Positive(v) ==
    IF v.special # "" THEN v.special = "inf" ELSE v.mant > 0

\* try: v, except: w
OrElse(v, w) == IF v # ValueError THEN v ELSE w

\* x.replace(".", "").replace(",", ".")
BrazilianForm(x) == Replace(Replace(x, ".", <<>>), ",", <<".">>)

\* parse_float_br with the Brazilian form tried before the direct parse
parse_brazilian_first(x) ==
    IF x = <<>> THEN Zero
    ELSE OrElse(Float(BrazilianForm(x)), OrElse(Float(Replace(x, " ", <<>>)), Zero))

\* parse_float_br after x = str(x).strip()
ParseStripped(x) ==
    IF x = <<>> THEN Zero
    ELSE OrElse(Float(Replace(x, " ", <<>>)), OrElse(Float(BrazilianForm(x)), Zero))

\* the argument None, which is no string
None == <<"None">>

parse_float_br(x0) == IF x0 = None THEN Zero ELSE ParseStripped(Strip(x0))

(***************************************************************************)
(* norm_txt.                                                               *)
(***************************************************************************)
\* unicodedata.normalize("NFKD", s).encode("ascii", "ignore"): an accented
\* letter leaves its base letter, any other non-ASCII character is dropped
NonAscii == {"Ç", "Ã", "É", "Í", "ç", "ã", "é", "í", "º", "ø"}

NFKDBase(c) ==
    CASE c = "Ç" -> <<"C">>
      [] c = "Ã" -> <<"A">>
      [] c = "É" -> <<"E">>
      [] c = "Í" -> <<"I">>
      [] c = "ç" -> <<"c">>
      [] c = "ã" -> <<"a">>
      [] c = "é" -> <<"e">>
      [] c = "í" -> <<"i">>
      [] c = "º" -> <<"o">>
      [] OTHER -> IF c \in NonAscii THEN <<>> ELSE <<c>>

RECURSIVE AsciiFold(_)
AsciiFold(s) ==
    IF s = <<>> THEN <<>> ELSE NFKDBase(Head(s)) \o AsciiFold(Tail(s))

\* the characters of the class [\s\.\-_/\\]
Separators == Whitespace \cup {".", "-", "_", "/", "\\"}

\* re.sub(r"[\s\.\-_/\\]+", " ", s)
RECURSIVE CollapseSeparators(_)
CollapseSeparators(s) ==
    IF s = <<>> THEN <<>>
    ELSE IF Head(s) \in Separators
         THEN IF Len(s) > 1 /\ s[2] \in Separators
              THEN CollapseSeparators(Tail(s))
              ELSE <<" ">> \o CollapseSeparators(Tail(s))
         ELSE <<Head(s)>> \o CollapseSeparators(Tail(s))

norm_txt(s) == Strip(CollapseSeparators(Lower(AsciiFold(s))))

(***************************************************************************)
(* 4) Auditoria DIFAL 2551/2556: constants and classifier.                 *)
(***************************************************************************)
CFOPS_ALVO ==
    { <<"2","5","5","1">>, <<"2","5","5","6">>,
      <<"2",".","5","5","1">>, <<"2",".","5","5","6">> }

EXCLUDE_CODES == { <<"S","P","0","0","0","2","9","9">> }  \* "SP000299"

KEYWORDS_DIFAL ==
    {
      <<"d","i","f","a","l">>,  \* 'difal'
      <<"d","i","f"," ","a","l">>,  \* 'dif al'
      <<"d"," ","i"," ","f"," ","a"," ","l">>,  \* 'd i f a l'
      <<"d","i","f","-","a","l","i","q">>,  \* 'dif-aliq'
      <<"d","i","f",".","a","l">>,  \* 'dif.al'
      <<"d","i","f",".","a","l","i","q">>,  \* 'dif.aliq'
      <<"d","i","f","."," ","a","l","i","q">>,  \* 'dif. aliq'
      <<"d","i","f"," ","a","l","i","q">>,  \* 'dif aliq'
      <<"d","i","f"," ","a","l","i","q","u","o","t","a">>,  \* 'dif aliquota'
      <<"d","i","f",".","a","l","i","q","u","o","t","a">>,  \* 'dif.aliquota'
      <<"d","i","f"," ","d","e"," ","a","l","i","q">>,  \* 'dif de aliq'
      <<"d","i","f"," ","d","e"," ","a","l","i","q","u","o","t","a">>,  \* 'dif de aliquota'
      <<"d","i","f","."," ","d","e"," ","a","l","i","q","u","o","t","a">>,  \* 'dif. de aliquota'
      <<"d","i","f","e","r","e","n","c","i","a","l">>,  \* 'diferencial'
      <<"d","i","f","e","r","e","n","c","a"," ","d","e"," ","a","l","i","q","u","o","t","a">>,  \* 'diferenca de aliquota'
      <<"d","i","f","e","r","e","n","c","a"," ","a","l","i","q","u","o","t","a">>,  \* 'diferenca aliquota'
      <<"d","i","f","e","r","e","n","c","."," ","a","l","i","q","u","o","t","a">>,  \* 'diferenc. aliquota'
      <<"u","s","o"," ","e"," ","c","o","n","s","u","m","o">>,  \* 'uso e consumo'
      <<"u","s","o","/","c","o","n","s","u","m","o">>,  \* 'uso/consumo'
      <<"u","s","o"," ","c","o","n","s","u","m","o">>,  \* 'uso consumo'
      <<"m","a","t","e","r","i","a","l"," ","d","e"," ","u","s","o">>,  \* 'material de uso'
      <<"u","s","o","-","c","o","n","s","u","m","o">>,  \* 'uso-consumo'
      <<"i","m","o","b","i","l","i","z","a","d","o">>,  \* 'imobilizado'
      <<"a","t","i","v","o"," ","p","e","r","m","a","n","e","n","t","e">>,  \* 'ativo permanente'
      <<"a","t","i","v","o"," ","i","m","o","b","i","l","i","z","a","d","o">>,  \* 'ativo imobilizado'
      <<"f","e","c","p">>,  \* 'fecp'
      <<"f"," ","e"," ","c"," ","p">>,  \* 'f e c p'
      <<"f","u","n","d","o"," ","c","o","m","b","a","t","e"," ","p","o","b","r","e","z","a">>,  \* 'fundo combate pobreza'
      <<"f","u","n","d","o"," ","e","s","t","a","d","u","a","l"," ","d","e"," ","c","o","m","b","a","t","e"," ","a"," ","p","o","b","r","e","z","a">>   \* 'fundo estadual de combate a pobreza'
    }

\* the table as (state, record type or "ANY", code) triples
DIFAL_CODES_UF ==
    {
      <<<<"P","R">>, <<"A","N","Y">>, <<"P","R","0","0","0","0","8","1">>>>,  \* PR: ("ANY", "PR000081")
      <<<<"S","P">>, <<"E","1","1","1">>, <<"S","P","0","0","0","2","0","7">>>>,  \* SP: ("E111", "SP000207")
      <<<<"S","P">>, <<"C","1","9","7">>, <<"S","P","4","0","0","9","0","2","0","7">>>>,  \* SP: ("C197", "SP40090207")
      <<<<"S","P">>, <<"C","1","9","7">>, <<"S","P","1","0","0","9","0","7","1","8">>>>,  \* SP: ("C197", "SP10090718")
      <<<<"S","C">>, <<"C","1","9","7">>, <<"S","C","4","0","0","0","0","0","0","2">>>>,  \* SC: ("C197", "SC40000002")
      <<<<"S","C">>, <<"C","1","9","7">>, <<"S","C","4","0","0","0","0","0","0","3">>>>,  \* SC: ("C197", "SC40000003")
      <<<<"S","C">>, <<"A","N","Y">>, <<"S","C","0","0","0","0","0","7">>>>,  \* SC: ("ANY", "SC000007")
      <<<<"M","S">>, <<"C","1","9","7">>, <<"M","S","7","0","0","0","0","0","0","1">>>>,  \* MS: ("C197", "MS70000001")
      <<<<"M","G">>, <<"C","1","9","7">>, <<"M","G","7","0","0","0","0","0","0","1">>>>,  \* MG: ("C197", "MG70000001")
      <<<<"M","G">>, <<"C","1","9","7">>, <<"M","G","7","0","0","1","0","0","0","1">>>>,  \* MG: ("C197", "MG70010001")
      <<<<"G","O">>, <<"C","1","9","7">>, <<"G","O","4","0","0","0","0","0","2","9">>>>,  \* GO: ("C197", "GO40000029")
      <<<<"G","O">>, <<"C","1","9","7">>, <<"G","O","0","2","0","0","8","1">>>>,  \* GO: ("C197", "GO020081")
      <<<<"G","O">>, <<"C","1","9","7">>, <<"G","O","0","2","0","0","8","2">>>>,  \* GO: ("C197", "GO020082")
      <<<<"G","O">>, <<"C","1","9","7">>, <<"G","O","0","5","0","0","1","0">>>>,  \* GO: ("C197", "GO050010")
      <<<<"G","O">>, <<"C","1","9","7">>, <<"G","O","0","5","0","0","1","1">>>>,  \* GO: ("C197", "GO050011")
      <<<<"M","T">>, <<"C","1","9","7">>, <<"M","T","7","0","0","0","0","0","0","1">>>>,  \* MT: ("C197", "MT70000001")
      <<<<"M","T">>, <<"C","1","9","7">>, <<"M","T","7","0","0","0","0","0","0","2">>>>,  \* MT: ("C197", "MT70000002")
      <<<<"R","J">>, <<"C","1","9","7">>, <<"R","J","7","0","0","0","0","0","0","1">>>>,  \* RJ: ("C197", "RJ70000001")
      <<<<"R","J">>, <<"C","1","9","7">>, <<"R","J","7","0","0","0","0","0","0","2">>>>,  \* RJ: ("C197", "RJ70000002")
      <<<<"R","J">>, <<"C","1","9","7">>, <<"R","J","7","0","0","0","0","0","0","3">>>>,  \* RJ: ("C197", "RJ70000003")
      <<<<"R","J">>, <<"C","1","9","7">>, <<"R","J","7","0","0","0","0","0","0","6">>>>   \* RJ: ("C197", "RJ70000006")
    }

ANY == <<"A","N","Y">>

\* eh_cfop_alvo without the dot-grouped forms
cfop_alvo_plain_only(cfop) ==
    IF cfop = <<>> THEN FALSE
    ELSE Strip(cfop) \in { <<"2","5","5","1">>, <<"2","5","5","6">> }

eh_cfop_alvo(cfop) ==
    IF cfop = <<>> THEN FALSE
    ELSE LET cf == Strip(cfop)
         IN cf \in CFOPS_ALVO
            \/ Replace(cf, ".", <<>>) \in { <<"2","5","5","1">>, <<"2","5","5","6">> }

\* eh_codigo_difal_por_whitelist with the lookup not scoped by record type:
\* any entry of the state's table with the code counts
whitelist_any_record(uf, registro, cod0) ==
    LET cod == Upper(Strip(cod0))
    IN IF cod = <<>> \/ cod \in EXCLUDE_CODES THEN FALSE
       ELSE \E t \in DIFAL_CODES_UF : t[1] = Upper(uf) /\ t[3] = cod

eh_codigo_difal_por_whitelist(uf, registro, cod0) ==
    LET cod    == Upper(Strip(cod0))
        keyset == {<<t[2], t[3]>> : t \in {t \in DIFAL_CODES_UF : t[1] = Upper(uf)}}
    IN IF cod = <<>> \/ cod \in EXCLUDE_CODES THEN FALSE
       ELSE <<ANY, cod>> \in keyset \/ <<Upper(registro), cod>> \in keyset

eh_desc_difal(descr) ==
    LET s == norm_txt(descr)
    IN IF s = <<>> THEN FALSE
       ELSE \E kw \in KEYWORDS_DIFAL : Contains(s, kw)

\* eh_ajuste_difal without the exclusion test of lines 292-293: an excluded
\* code fails the whitelist but its description is still consulted
ajuste_without_exclusion(uf, registro, cod, descr) ==
    IF eh_codigo_difal_por_whitelist(uf, registro, cod) THEN TRUE
    ELSE eh_desc_difal(descr)

eh_ajuste_difal(uf, registro, cod, descr) ==
    IF Upper(Strip(cod)) \in EXCLUDE_CODES THEN FALSE
    ELSE IF eh_codigo_difal_por_whitelist(uf, registro, cod) THEN TRUE
    ELSE eh_desc_difal(descr)

(***************************************************************************)
(* Ordering and joining of strings (sorted, ", ".join).                    *)
(***************************************************************************)
\* the characters of the model in code point order
CodePoints ==
    <<"\t"," ","(",")","+",",","-",".","/","0","1","2","3","4","5","6","7","8","9",
      "A","B","C","D","E","F","G","H","I","J","K","L","M","N","O","P","Q","R","S",
      "T","U","V","W","X","Y","Z","\\","_","a","b","c","d","e","f","g","h","i","j",
      "k","l","m","n","o","p","q","r","s","t","u","v","w","x","y","z","|","º","Ã",
      "Ç","É","ã","ç","é","í">>

\* ord(c), as its position in CodePoints
Ord == [c \in {CodePoints[i] : i \in DOMAIN CodePoints} |->
           CHOOSE i \in DOMAIN CodePoints : CodePoints[i] = c]

\* a <= b for two strings, comparing from position i on
RECURSIVE StrLeqFrom(_, _, _)
StrLeqFrom(a, b, i) ==
    IF i > Len(a) THEN TRUE
    ELSE IF i > Len(b) THEN FALSE
    ELSE IF a[i] = b[i] THEN StrLeqFrom(a, b, i + 1)
    ELSE Ord[a[i]] < Ord[b[i]]

StrLeq(a, b) == StrLeqFrom(a, b, 1)

\* sorted(S) for a set of strings: the i-th element has i elements at or below it
Sorted(S) ==
    [i \in 1..Cardinality(S) |->
        CHOOSE x \in S : Cardinality({y \in S : StrLeq(y, x)}) = i]

\* sep.join(parts)
RECURSIVE Join(_, _)
Join(parts, sep) ==
    IF parts = <<>> THEN <<>>
    ELSE IF Len(parts) = 1 THEN parts[1]
    ELSE parts[1] \o sep \o Join(Tail(parts), sep)

\* the concatenation of a sequence of sequences
RECURSIVE Flatten(_)
Flatten(ss) == IF ss = <<>> THEN <<>> ELSE Head(ss) \o Flatten(Tail(ss))

\* {f[i] : i in DOMAIN s}
Range(s) == {s[i] : i \in DOMAIN s}

(***************************************************************************)
(* extrair_competencia_0000.                                               *)
(***************************************************************************)
\* the loop stops at the first line whose index exceeds this
HeaderScanLimit == 80

REC_0000 == <<"0","0","0","0">>

\* [p.strip() for p in line.strip().split("|")]
StrippedParts(raw) ==
    LET parts == Split(Strip(raw), "|")
    IN [i \in DOMAIN parts |-> Strip(parts[i])]

extrair_competencia_0000(lines_iterable) ==
    LET IsHeader(i) ==
            LET parts == StrippedParts(lines_iterable[i])
            IN Len(parts) > 1 /\ parts[2] = REC_0000
        scanned == {i \in DOMAIN lines_iterable : i - 1 <= HeaderScanLimit}
        found   == {i \in scanned : IsHeader(i)}
    IN IF found = {}
       THEN [comp |-> <<>>, razao |-> <<>>, cnpj |-> <<>>, uf |-> <<>>]
       ELSE LET k      == CHOOSE i \in found : \A j \in found : i <= j
                parts  == StrippedParts(lines_iterable[k])
                dt_ini == Field(parts, 4)
            IN [comp  |-> IF dt_ini # <<>> /\ Len(dt_ini) = 8
                          THEN SubSeq(dt_ini, 3, 4) \o <<"/">> \o SubSeq(dt_ini, 5, 8)
                          ELSE <<>>,
                razao |-> Strip(Field(parts, 6)),
                cnpj  |-> Strip(Field(parts, 7)),
                uf    |-> Upper(Strip(Field(parts, 9)))]

(***************************************************************************)
(* The input: the lines of a file.                                         *)
(***************************************************************************)
\* the file header: period 01/2024, state SP
\*   |0000|1|0|01012024|31012024|ACME|123||SP|
L_0000 ==
    <<"|","0","0","0","0","|","1","|","0","|","0","1","0","1","2","0","2","4","|","3","1","0","1","2","0","2","4","|","A","C","M","E","|","1","2","3","|","|","S","P","|">>

\* a document: series 1, number 100, key K
\*   |C100|0|1|F|55|00|1|100|K|
L_C100_A ==
    <<"|","C","1","0","0","|","0","|","1","|","F","|","5","5","|","0","0","|","1","|","1","0","0","|","K","|">>

\* a document whose number and key fields are absent
\*   |C100|0|1|F|55|00|1|
L_C100_B ==
    <<"|","C","1","0","0","|","0","|","1","|","F","|","5","5","|","0","0","|","1","|">>

\* an item: description D, value 9, CFOP 2551
\*   |C170|1|I|D|||9||2551|
L_C170_T ==
    <<"|","C","1","7","0","|","1","|","I","|","D","|","|","|","9","|","|","2","5","5","1","|">>

\* an item with no CFOP and no value field
\*   |C170|2|J|E|
L_C170_N ==
    <<"|","C","1","7","0","|","2","|","J","|","E","|">>

\* an observation that mentions DIFAL
\*   |C195|OBS|DIFAL|
L_C195 ==
    <<"|","C","1","9","5","|","O","B","S","|","D","I","F","A","L","|">>

\* a document adjustment with a code whitelisted in SP
\*   |C197|SP40090207|x|5,00|
L_C197 ==
    <<"|","C","1","9","7","|","S","P","4","0","0","9","0","2","0","7","|","x","|","5",",","0","0","|">>

\* a period adjustment with a code whitelisted in SP
\*   |E111|SP000207|x|3|
L_E111 ==
    <<"|","E","1","1","1","|","S","P","0","0","0","2","0","7","|","x","|","3","|">>

\* a period adjustment accepted by its description only
\*   |E115|X1|2|Dif. Aliq|
L_E115 ==
    <<"|","E","1","1","5","|","X","1","|","2","|","D","i","f","."," ","A","l","i","q","|">>

\* a period collection record: origin code SP000299
\*   |E116|SP000299|4||X2||||uso/consumo|
L_E116 ==
    <<"|","E","1","1","6","|","S","P","0","0","0","2","9","9","|","4","|","|","X","2","|","|","|","|","u","s","o","/","c","o","n","s","u","m","o","|">>

\* a line without a field delimiter
\*   obs
L_TEXT ==
    <<"o","b","s">>

\* the lines an input file is made of
Lines ==
    { L_TEXT,
      L_0000,
      L_C100_A,
      L_C100_B,
      L_C170_T,
      L_C170_N,
      L_C195,
      L_C197,
      L_E111,
      L_E115,
      L_E116 }

(***************************************************************************)
(* Lines that exercise the tokenizer: short lines and padded fields.        *)
(***************************************************************************)
\* an empty line
\*   
T_EMPTY ==
    <<>>

\* a line of blanks
\*     
T_BLANK ==
    <<" "," ">>

\* a record name without a field delimiter
\*   C197
T_WORD ==
    <<"C","1","9","7">>

\* a document whose record-type token carries blanks
\*   | C100 |0|1|F|55|00|1|100|K|
T_C100_PAD ==
    <<"|"," ","C","1","0","0"," ","|","0","|","1","|","F","|","5","5","|","0","0","|","1","|","1","0","0","|","K","|">>

\* a document whose series field carries blanks
\*   |C100|0|1|F|55|00| 1 |100|K|
T_C100_SERIE ==
    <<"|","C","1","0","0","|","0","|","1","|","F","|","5","5","|","0","0","|"," ","1"," ","|","1","0","0","|","K","|">>

\* a document adjustment on an indented line
\*     |C197|SP40090207|x|5,00|
T_C197_LEAD ==
    <<" "," ","|","C","1","9","7","|","S","P","4","0","0","9","0","2","0","7","|","x","|","5",",","0","0","|">>

\* the lines of a file read by both consumers
TokenLines ==
    { T_EMPTY,
      T_BLANK,
      T_WORD,
      L_TEXT,
      L_0000,
      L_C100_A,
      T_C100_PAD,
      T_C100_SERIE,
      L_C197,
      T_C197_LEAD }

(***************************************************************************)
(* Lines of documents that share an identity, with their adjustments.      *)
(***************************************************************************)
\* a document adjustment accepted by its description in any state
\*   |C197|X3|difal|7|
L_C197_KW ==
    <<"|","C","1","9","7","|","X","3","|","d","i","f","a","l","|","7","|">>

\* the lines of a file of documents
DocLines ==
    { L_0000,
      L_C100_A,
      L_C100_B,
      L_C170_T,
      L_C170_N,
      L_C195,
      L_C197,
      L_C197_KW }

\* every line of the model
AllLines == Lines \cup TokenLines \cup DocLines

(***************************************************************************)
(* State.                                                                  *)
(***************************************************************************)
VARIABLES
    pc,                 \* "lines": in the loop over the lines; "done": returned
    text,               \* the lines of the file read so far
    current_doc,        \* <<>> for None, <<d>> for the open document d
    docs,               \* the finalized documents
    obs_por_doc,        \* the dict doc_id -> C195 texts, as its items in insertion order
    ajustes_c197_all,
    ajustes_e111_all,
    ajustes_e115_all,
    ajustes_e116_all,
    uf,                 \* the locals computed after the loop
    ajustes_c197_validos,
    ajustes_e111_validos,
    ajustes_e115_validos,
    ajustes_e116_validos,
    numeros_nfs_alvo,
    evid_periodo,
    codigos_usados,
    conformidade_whitelist,
    tem_ajuste_difal,
    df_analise,         \* the four returned tables
    df_sem,
    df_check,
    df_resumo,
    coletar_current_doc, \* coletar_ajustes: the identity of the last C100 seen
    coletar_c195,               \* coletar_ajustes: the rows collected per record type
    coletar_c197,
    coletar_e111,
    coletar_e115,
    coletar_e116,
    coletar_raised,     \* coletar_ajustes was left by an exception
    cte_comp,           \* cte_parse: the period of the file's header
    cte_idx,            \* cte_parse: the number of lines the loop has read
    cte_d100,           \* cte_parse: <<>> for {}, <<d>> for the filled dict d
    cte_todos,          \* cte_parse: the detail rows collected
    cte_df,             \* cte_parse: the two returned tables
    cte_df_resumo,
    call,               \* the arguments of a call of a pure function
    ret                 \* and what it returned

parser == <<current_doc, docs, obs_por_doc, ajustes_c197_all, ajustes_e111_all,
            ajustes_e115_all, ajustes_e116_all>>

locals == <<uf, ajustes_c197_validos, ajustes_e111_validos, ajustes_e115_validos,
            ajustes_e116_validos, numeros_nfs_alvo, evid_periodo, codigos_usados,
            conformidade_whitelist, tem_ajuste_difal>>

tables == <<df_analise, df_sem, df_check, df_resumo>>

coletor == <<coletar_current_doc, coletar_c195, coletar_c197, coletar_e111,
            coletar_e115, coletar_e116, coletar_raised>>

cte == <<cte_comp, cte_idx, cte_d100, cte_todos, cte_df, cte_df_resumo>>

vars == <<pc, text, parser, locals, tables, coletor, cte, call, ret>>

\* pd.DataFrame(rows): the columns are the keys of the rows
DataFrame(rows) ==
    [columns |-> UNION {DOMAIN rows[i] : i \in DOMAIN rows}, rows |-> rows]

\* a table not yet built
NoTable == [columns |-> {}, rows |-> <<>>]

\* cte_parse has not been entered
NoCte ==
    /\ cte_comp = <<>>
    /\ cte_idx = 0
    /\ cte_d100 = <<>>
    /\ cte_todos = <<>>
    /\ cte_df = NoTable
    /\ cte_df_resumo = NoTable

NoCall == [uf |-> <<>>, registro |-> <<>>, cod |-> <<>>, descr |-> <<>>]

NoRet == [fn |-> "", value |-> FALSE]

(***************************************************************************)
(* auditoria_difal_text: the loop over the lines.                          *)
(***************************************************************************)
REC_C100 == <<"C","1","0","0">>
REC_C170 == <<"C","1","7","0">>
REC_C195 == <<"C","1","9","5">>
REC_C197 == <<"C","1","9","7">>
REC_E111 == <<"E","1","1","1">>
REC_E115 == <<"E","1","1","5">>
REC_E116 == <<"E","1","1","6">>

doc_id(d) == d.serie \o <<"|">> \o d.numero \o <<"|">> \o d.chave

\* line = raw.strip(); if not line or "|" not in line: continue
Skipped(raw) ==
    LET line == Strip(raw)
    IN line = <<>> \/ \A i \in DOMAIN line : line[i] # "|"

\* parts = line.split("|")
Parts(raw) == Split(Strip(raw), "|")

\* rec = parts[1] if len(parts) > 1 else ""
Rec(raw) == Field(Parts(raw), 1)

\* re.fullmatch(r"\d{4}|\d\.\d{3}", cand)
MatchesCfop(cand) ==
    \/ Len(cand) = 4 /\ \A i \in 1..4 : cand[i] \in Digits
    \/ /\ Len(cand) = 5
       /\ cand[1] \in Digits /\ cand[2] = "."
       /\ \A i \in 3..5 : cand[i] \in Digits

\* for idx in (11,10,12,13,9): the first candidate that matches
RECURSIVE FindCfop(_, _)
FindCfop(parts, idxs) ==
    IF idxs = <<>> THEN <<>>
    ELSE LET cand == Strip(Field(parts, Head(idxs)))
         IN IF cand # <<>> /\ MatchesCfop(cand) THEN cand
            ELSE FindCfop(parts, Tail(idxs))

\* for idx in (7,20,12,24,25,5,6): the first candidate that parses positive
RECURSIVE FindValor(_, _)
\* if v > 0: vl_item = v; break
PositiveOrNext(v, parts, idxs) == IF Positive(v) THEN v ELSE FindValor(parts, idxs)

FindValor(parts, idxs) ==
    IF idxs = <<>> THEN Zero
    ELSE IF Strip(Field(parts, Head(idxs))) = <<>> THEN FindValor(parts, Tail(idxs))
    ELSE PositiveOrNext(parse_float_br(Field(parts, Head(idxs))), parts, Tail(idxs))

\* nums[-1] if nums else 0.0, nums the positive parses of ps in order
RECURSIVE LastPositive(_)
PositiveOrEarlier(v, ps) == IF Positive(v) THEN v ELSE LastPositive(ps)

LastPositive(ps) ==
    IF ps = <<>> THEN Zero
    ELSE PositiveOrEarlier(parse_float_br(ps[Len(ps)]), SubSeq(ps, 1, Len(ps) - 1))

\* x or y for two strings
Or(x, y) == IF x # <<>> THEN x ELSE y

NewDoc(parts) ==
    [serie  |-> Field(parts, 7),
     numero |-> Field(parts, 8),
     chave  |-> Field(parts, 9),
     itens  |-> <<>>]

NewItem(parts) ==
    [desc    |-> Field(parts, 4),
     cfop    |-> FindCfop(parts, <<11, 10, 12, 13, 9>>),
     vl_item |-> FindValor(parts, <<7, 20, 12, 24, 25, 5, 6>>)]

\* obs_por_doc[did].append(txt) on a defaultdict(list)
AppendObs(obs, did, txt) ==
    IF \E i \in DOMAIN obs : obs[i].did = did
    THEN [i \in DOMAIN obs |->
             IF obs[i].did = did
             THEN [obs[i] EXCEPT !.oblist = Append(@, txt)]
             ELSE obs[i]]
    ELSE Append(obs, [did |-> did, oblist |-> <<txt>>])

NewC197(parts, cur) ==
    <<Upper(Strip(Field(parts, 2))),
      Strip(Field(parts, 3)),
      LastPositive(SubSeq(parts, 3, Len(parts))),
      IF cur # <<>> THEN doc_id(cur[1]) ELSE <<>>>>

NewE111(parts) ==
    <<Upper(Strip(Field(parts, 2))),
      Strip(Field(parts, 3)),
      parse_float_br(IF Len(parts) > 4 THEN parts[5] ELSE <<"0">>)>>

NewE115(parts) ==
    <<Upper(Strip(Field(parts, 2))),
      Strip(Field(parts, 4)),
      parse_float_br(IF Len(parts) > 3 THEN parts[4] ELSE <<"0">>)>>

NewE116(parts) ==
    LET cod_or  == Upper(Strip(Field(parts, 2)))
        vl      == parse_float_br(IF Len(parts) > 3 THEN parts[4] ELSE <<"0">>)
        cod_rec == Upper(Strip(Field(parts, 5)))
        txt     == Strip(Field(parts, 9))
        descr   == Strip(cod_or \o <<" ">> \o cod_rec \o <<" ">> \o txt)
    IN <<Or(cod_or, cod_rec), descr, vl, cod_rec>>

\* each line as the loop sees it (evaluated once per line)
Seen ==
    [raw \in AllLines |->
        [skipped |-> Skipped(raw), rec |-> Rec(raw), parts |-> Parts(raw)]]

(***************************************************************************)
(* coletar_ajustes: the loop over the lines.                               *)
(***************************************************************************)
\* parts = [p.strip() for p in line.split("|")]
ColetarParts(line) ==
    LET ps == Split(line, "|")
    IN [i \in DOMAIN ps |-> Strip(ps[i])]

\* len(parts) < 2 that never holds
short_never(parts) == FALSE

\* if len(parts) < 2: continue
Short(parts) == Len(parts) < 2

\* what parts[1] raises on a list of one element
IndexError == "IndexError"

\* rec = parts[1]
ColetarRec(parts) == IF Len(parts) > 1 THEN parts[2] ELSE IndexError

\* current_doc = {"serie":"","numero":"","chave":""}
NoDoc == [serie |-> <<>>, numero |-> <<>>, chave |-> <<>>]

ColetarDoc(parts) ==
    [serie  |-> Field(parts, 7),
     numero |-> Field(parts, 8),
     chave  |-> Field(parts, 9)]

RowC195(cur, parts) ==
    ("Série" :> cur.serie) @@ ("Número" :> cur.numero) @@ ("Chave" :> cur.chave)
    @@ ("COD_OBS" :> Field(parts, 2)) @@ ("TXT_COMPL" :> Field(parts, 3))

RowC197(cur, parts) ==
    ("Série" :> cur.serie) @@ ("Número" :> cur.numero) @@ ("Chave" :> cur.chave)
    @@ ("COD_AJ" :> Field(parts, 2)) @@ ("DESCR" :> Field(parts, 3))
    @@ ("VALOR" :> LastPositive(SubSeq(parts, 3, Len(parts))))

RowE111(parts) ==
    ("COD_AJ_APUR" :> Field(parts, 2)) @@ ("DESCR" :> Field(parts, 3))
    @@ ("VALOR" :> parse_float_br(IF Len(parts) > 4 THEN parts[5] ELSE <<"0">>))

RowE115(parts) ==
    ("COD_INF_ADIC" :> Field(parts, 2))
    @@ ("VALOR" :> parse_float_br(IF Len(parts) > 3 THEN parts[4] ELSE <<"0">>))
    @@ ("DESCR" :> Field(parts, 4))

RowE116(parts) ==
    ("COD_OR" :> Field(parts, 2))
    @@ ("VALOR" :> parse_float_br(IF Len(parts) > 3 THEN parts[4] ELSE <<"0">>))
    @@ ("DT_VCTO" :> Field(parts, 4)) @@ ("COD_REC" :> Field(parts, 5))
    @@ ("NUM_PROC" :> Field(parts, 6)) @@ ("IND_PROC" :> Field(parts, 7))
    @@ ("PROC" :> Field(parts, 8)) @@ ("TXT_COMPL" :> Field(parts, 9))

\* each line as the loop of coletar_ajustes sees it (evaluated once per line)
Collected ==
    [raw \in AllLines |->
        LET parts == ColetarParts(raw)
        IN [parts |-> parts, short |-> Short(parts), rec |-> ColetarRec(parts)]]

\* one turn of the loop of coletar_ajustes on the line raw
Coletar(raw) ==
    \E ln \in {Collected[raw]} :
        IF coletar_raised \/ ln.short THEN UNCHANGED coletor
        ELSE IF ln.rec = IndexError
        THEN /\ coletar_raised' = TRUE
             /\ UNCHANGED <<coletar_current_doc, coletar_c195, coletar_c197,
                            coletar_e111, coletar_e115, coletar_e116>>
        ELSE /\ coletar_raised' = FALSE
             /\ coletar_current_doc' =
                    IF ln.rec = REC_C100 THEN ColetarDoc(ln.parts)
                    ELSE coletar_current_doc
             /\ coletar_c195' =
                    IF ln.rec = REC_C195
                    THEN Append(coletar_c195, RowC195(coletar_current_doc, ln.parts))
                    ELSE coletar_c195
             /\ coletar_c197' =
                    IF ln.rec = REC_C197
                    THEN Append(coletar_c197, RowC197(coletar_current_doc, ln.parts))
                    ELSE coletar_c197
             /\ coletar_e111' =
                    IF ln.rec = REC_E111 THEN Append(coletar_e111, RowE111(ln.parts))
                    ELSE coletar_e111
             /\ coletar_e115' =
                    IF ln.rec = REC_E115 THEN Append(coletar_e115, RowE115(ln.parts))
                    ELSE coletar_e115
             /\ coletar_e116' =
                    IF ln.rec = REC_E116 THEN Append(coletar_e116, RowE116(ln.parts))
                    ELSE coletar_e116

\* the next line of the file is raw; coletar_ajustes reads it as well
Read(raw) ==
    /\ pc = "lines"
    /\ Len(text) < MaxLines
    /\ text' = Append(text, raw)
    /\ Coletar(raw)
    /\ UNCHANGED <<pc, locals, tables, cte, call, ret>>

SkippedLine(raw) ==
    /\ Read(raw)
    /\ Seen[raw].skipped
    /\ UNCHANGED parser

C100Line(raw) ==
    /\ Read(raw)
    /\ ~Seen[raw].skipped /\ Seen[raw].rec = REC_C100
    /\ docs' = IF current_doc # <<>> THEN Append(docs, current_doc[1]) ELSE docs
    /\ current_doc' = <<NewDoc(Seen[raw].parts)>>
    /\ UNCHANGED <<obs_por_doc, ajustes_c197_all, ajustes_e111_all,
                   ajustes_e115_all, ajustes_e116_all>>

\* the C170 branch recording an item only when a CFOP was found
c170_line_with_cfop_only(raw) ==
    /\ Read(raw)
    /\ ~Seen[raw].skipped /\ Seen[raw].rec = REC_C170 /\ current_doc # <<>>
    /\ current_doc' =
           IF NewItem(Seen[raw].parts).cfop # <<>>
           THEN <<[current_doc[1] EXCEPT !.itens = Append(@, NewItem(Seen[raw].parts))]>>
           ELSE current_doc
    /\ UNCHANGED <<docs, obs_por_doc, ajustes_c197_all, ajustes_e111_all,
                   ajustes_e115_all, ajustes_e116_all>>

C170Line(raw) ==
    /\ Read(raw)
    /\ ~Seen[raw].skipped /\ Seen[raw].rec = REC_C170 /\ current_doc # <<>>
    /\ current_doc' =
           <<[current_doc[1] EXCEPT !.itens = Append(@, NewItem(Seen[raw].parts))]>>
    /\ UNCHANGED <<docs, obs_por_doc, ajustes_c197_all, ajustes_e111_all,
                   ajustes_e115_all, ajustes_e116_all>>

C195Line(raw) ==
    /\ Read(raw)
    /\ ~Seen[raw].skipped /\ Seen[raw].rec = REC_C195
    /\ LET txt == Field(Seen[raw].parts, 3)
       IN obs_por_doc' =
              IF current_doc # <<>> /\ txt # <<>>
              THEN AppendObs(obs_por_doc, doc_id(current_doc[1]), txt)
              ELSE obs_por_doc
    /\ UNCHANGED <<current_doc, docs, ajustes_c197_all, ajustes_e111_all,
                   ajustes_e115_all, ajustes_e116_all>>

C197Line(raw) ==
    /\ Read(raw)
    /\ ~Seen[raw].skipped /\ Seen[raw].rec = REC_C197
    /\ ajustes_c197_all' = Append(ajustes_c197_all, NewC197(Seen[raw].parts, current_doc))
    /\ UNCHANGED <<current_doc, docs, obs_por_doc, ajustes_e111_all,
                   ajustes_e115_all, ajustes_e116_all>>

E111Line(raw) ==
    /\ Read(raw)
    /\ ~Seen[raw].skipped /\ Seen[raw].rec = REC_E111
    /\ ajustes_e111_all' = Append(ajustes_e111_all, NewE111(Seen[raw].parts))
    /\ UNCHANGED <<current_doc, docs, obs_por_doc, ajustes_c197_all,
                   ajustes_e115_all, ajustes_e116_all>>

E115Line(raw) ==
    /\ Read(raw)
    /\ ~Seen[raw].skipped /\ Seen[raw].rec = REC_E115
    /\ ajustes_e115_all' = Append(ajustes_e115_all, NewE115(Seen[raw].parts))
    /\ UNCHANGED <<current_doc, docs, obs_por_doc, ajustes_c197_all,
                   ajustes_e111_all, ajustes_e116_all>>

E116Line(raw) ==
    /\ Read(raw)
    /\ ~Seen[raw].skipped /\ Seen[raw].rec = REC_E116
    /\ ajustes_e116_all' = Append(ajustes_e116_all, NewE116(Seen[raw].parts))
    /\ UNCHANGED <<current_doc, docs, obs_por_doc, ajustes_c197_all,
                   ajustes_e111_all, ajustes_e115_all>>

\* a line no branch of the if/elif chain takes
OtherLine(raw) ==
    /\ Read(raw)
    /\ ~Seen[raw].skipped
    /\ Seen[raw].rec \notin {REC_C100, REC_C195, REC_C197, REC_E111, REC_E115, REC_E116}
    /\ Seen[raw].rec = REC_C170 => current_doc = <<>>
    /\ UNCHANGED parser

(***************************************************************************)
(* The audit over a file made of the lines of Lines.                       *)
(***************************************************************************)
LineSkipped == \E raw \in Lines : SkippedLine(raw)

LineC100 == \E raw \in Lines : C100Line(raw)

LineC170 == \E raw \in Lines : C170Line(raw)

LineC195 == \E raw \in Lines : C195Line(raw)

LineC197 == \E raw \in Lines : C197Line(raw)

LineE111 == \E raw \in Lines : E111Line(raw)

LineE115 == \E raw \in Lines : E115Line(raw)

LineE116 == \E raw \in Lines : E116Line(raw)

LineOther == \E raw \in Lines : OtherLine(raw)

(***************************************************************************)
(* Both consumers over a file made of the lines of TokenLines.             *)
(***************************************************************************)
TokenSkipped == \E raw \in TokenLines : SkippedLine(raw)

TokenC100 == \E raw \in TokenLines : C100Line(raw)

TokenC197 == \E raw \in TokenLines : C197Line(raw)

TokenOther == \E raw \in TokenLines : OtherLine(raw)

(***************************************************************************)
(* The audit over a file made of the lines of DocLines.                    *)
(***************************************************************************)
DocC100 == \E raw \in DocLines : C100Line(raw)

DocC170 == \E raw \in DocLines : C170Line(raw)

DocC195 == \E raw \in DocLines : C195Line(raw)

DocC197 == \E raw \in DocLines : C197Line(raw)

DocOther == \E raw \in DocLines : OtherLine(raw)

(***************************************************************************)
(* auditoria_difal_text: after the loop.                                   *)
(***************************************************************************)
\* the documents at the end without line 374: the open document is not appended
docs_without_open ==
    [i \in DOMAIN docs |->
        [serie  |-> docs[i].serie,
         numero |-> docs[i].numero,
         chave  |-> docs[i].chave,
         itens  |-> docs[i].itens,
         tem_cfop_alvo |->
             \E k \in DOMAIN docs[i].itens : eh_cfop_alvo(docs[i].itens[k].cfop)]]

\* if current_doc: docs.append(current_doc); then d["tem_cfop_alvo"] for each
docs_finais ==
    LET all == IF current_doc # <<>> THEN Append(docs, current_doc[1]) ELSE docs
    IN [i \in DOMAIN all |->
           [serie  |-> all[i].serie,
            numero |-> all[i].numero,
            chave  |-> all[i].chave,
            itens  |-> all[i].itens,
            tem_cfop_alvo |->
                \E k \in DOMAIN all[i].itens : eh_cfop_alvo(all[i].itens[k].cfop)]]

\* [(c,d,v) for (c,d,v) in all if eh_ajuste_difal(uf, reg, c, d)]
Validos(all, u, reg) ==
    LET Valido(a) == eh_ajuste_difal(u, reg, a[1], a[2])
    IN SelectSeq(all, Valido)

\* [(cod_rec or cod, d, v) for ... if eh_ajuste_difal(uf, "E116", cod_rec or cod, d)]
ValidosE116(all, u) ==
    LET Valido(a) == eh_ajuste_difal(u, REC_E116, Or(a[4], a[1]), a[2])
        kept == SelectSeq(all, Valido)
    IN [i \in DOMAIN kept |-> <<Or(kept[i][4], kept[i][1]), kept[i][2], kept[i][3]>>]

OBS_C195 ==  \* "Obs C195 com menção a DIFAL/FECP"
    <<"O","b","s"," ","C","1","9","5"," ","c","o","m"," ","m","e","n","ç","ã","o",
      " ","a"," ","D","I","F","A","L","/","F","E","C","P">>

\* ajustes_doc_validos[did]: the accepted C197 of did, then its C195 entry
ajustes_doc_validos(c197_validos, did) ==
    LET Own(a) == a[4] # <<>> /\ a[4] = did
        own    == SelectSeq(c197_validos, Own)
        c197   == [i \in DOMAIN own |-> <<REC_C197, own[i][1], own[i][2], own[i][3]>>]
        c195   == IF \E i \in DOMAIN obs_por_doc :
                        /\ obs_por_doc[i].did = did
                        /\ \E k \in DOMAIN obs_por_doc[i].oblist :
                               eh_desc_difal(obs_por_doc[i].oblist[k])
                  THEN <<<<REC_C195, <<>>, OBS_C195, Zero>>>>
                  ELSE <<>>
    IN c197 \o c195

docs_alvo(ds) ==
    LET Alvo(d) == d.tem_cfop_alvo
    IN SelectSeq(ds, Alvo)

NumerosAlvo(alvo) ==
    Sorted({alvo[i].numero : i \in DOMAIN alvo} \ {<<>>})

\* the accepted period adjustments as (record type, code, description, value)
Tagged(reg, validos) ==
    [i \in DOMAIN validos |-> <<reg, validos[i][1], validos[i][2], validos[i][3]>>]

EvidPeriodo(e111, e115, e116) ==
    Tagged(REC_E111, e111) \o Tagged(REC_E115, e115) \o Tagged(REC_E116, e116)

\* sorted({c for (c, ...) in validos})
codigos(validos) == Sorted({validos[i][1] : i \in DOMAIN validos})

CodigosUsados(c197, e111, e115, e116) ==
    Sorted(Range(codigos(c197)) \cup Range(codigos(e111))
           \cup Range(codigos(e115)) \cup Range(codigos(e116)))

\* conformidade_whitelist with the period-level codes left unchecked
conformidade_c197_only(u, usados, c197, e111, e115, e116) ==
    IF usados # <<>>
    THEN \A c \in Range(codigos(c197)) : eh_codigo_difal_por_whitelist(u, REC_C197, c)
    ELSE FALSE

Conformidade(u, usados, c197, e111, e115, e116) ==
    IF usados # <<>>
    THEN /\ \A c \in Range(codigos(c197)) : eh_codigo_difal_por_whitelist(u, REC_C197, c)
         /\ \A c \in Range(codigos(e111)) : eh_codigo_difal_por_whitelist(u, REC_E111, c)
         /\ \A c \in Range(codigos(e115)) : eh_codigo_difal_por_whitelist(u, REC_E115, c)
         /\ \A c \in Range(codigos(e116)) : eh_codigo_difal_por_whitelist(u, REC_E116, c)
    ELSE FALSE

\* linhas_ajuste with the period-level evidence added to the own evidence
\* instead of used only in its absence
linhas_own_and_period(c197, evid, d) ==
    LET own == ajustes_doc_validos(c197, doc_id(d))
    IN IF own \o evid # <<>> THEN own \o evid
       ELSE <<<<<<>>, <<>>, <<>>, Zero>>>>

\* linhas_ajuste without the else branch of lines 430-431
linhas_without_placeholder(c197, evid, d) ==
    LET own == ajustes_doc_validos(c197, doc_id(d))
    IN IF own # <<>> THEN own ELSE evid

\* linhas_ajuste for the items of document d
linhas_ajuste(c197, evid, d) ==
    LET own == ajustes_doc_validos(c197, doc_id(d))
    IN IF own # <<>> THEN own
       ELSE IF evid # <<>> THEN evid
       ELSE <<<<<<>>, <<>>, <<>>, Zero>>>>

AnaliseRow(d, it, aj) ==
    ("Série" :> d.serie) @@ ("Número NF" :> d.numero) @@ ("Chave NF-e" :> d.chave)
    @@ ("CFOP" :> it.cfop) @@ ("Descrição do Item" :> it.desc)
    @@ ("Valor Total Item" :> it.vl_item)
    @@ ("Registro Ajuste" :> aj[1]) @@ ("Cód. Ajuste DIFAL" :> aj[2])
    @@ ("Valor Ajuste" :> aj[4]) @@ ("Descrição Ajuste" :> aj[3])

\* the items of d whose CFOP is 2551/2556, in order
itens_alvo(d) ==
    LET Alvo(it) == eh_cfop_alvo(it.cfop)
    IN SelectSeq(d.itens, Alvo)

analise_rows(alvo, c197, evid) ==
    Flatten([i \in DOMAIN alvo |->
        LET its == itens_alvo(alvo[i])
            las == linhas_ajuste(c197, evid, alvo[i])
        IN Flatten([k \in DOMAIN its |->
               [j \in DOMAIN las |-> AnaliseRow(alvo[i], its[k], las[j])]])])

OBS_SEM ==
    "Item com CFOP 2551/2556 sem evidência de DIFAL (C197/C195/E111/E115/E116)"

SemRow(d, it) ==
    ("Série" :> d.serie) @@ ("Número NF" :> d.numero) @@ ("Chave NF-e" :> d.chave)
    @@ ("CFOP" :> it.cfop) @@ ("Descrição do Item" :> it.desc)
    @@ ("Valor Total Item" :> it.vl_item)
    @@ ("Observação" :> OBS_SEM)

\* doc_tem_evidencia without "or evid_periodo"
doc_tem_evidencia_own_only(c197, evid, d) ==
    ajustes_doc_validos(c197, doc_id(d)) # <<>>

doc_tem_evidencia(c197, evid, d) ==
    ajustes_doc_validos(c197, doc_id(d)) # <<>> \/ evid # <<>>

\* sem_rows listing the items of every document, evidenced or not
sem_rows_unconditional(alvo, c197, evid) ==
    Flatten([i \in DOMAIN alvo |->
        LET its == itens_alvo(alvo[i])
        IN [k \in DOMAIN its |-> SemRow(alvo[i], its[k])]])

sem_rows(alvo, c197, evid) ==
    Flatten([i \in DOMAIN alvo |->
        IF ~doc_tem_evidencia(c197, evid, alvo[i])
        THEN LET its == itens_alvo(alvo[i])
             IN [k \in DOMAIN its |-> SemRow(alvo[i], its[k])]
        ELSE <<>>])

possui_notas(numeros) == IF numeros # <<>> THEN "Sim" ELSE "Não"

nfs_list(numeros) == Join(numeros, <<",", " ">>)

TemAjuste(c197, evid) == c197 # <<>> \/ evid # <<>>

\* the entries of "Códigos/Descrições identificados" as (code, record type,
\* value, description); their formatting into one string is not modelled
codigos_descricoes(c197, evid) ==
    [i \in DOMAIN c197 |-> <<c197[i][1], REC_C197, c197[i][3], c197[i][2]>>]
    \o [i \in DOMAIN evid |-> <<evid[i][2], evid[i][1], evid[i][4], evid[i][3]>>]

conforme_leg(tem_ajuste, conformidade, usados) ==
    IF tem_ajuste /\ conformidade
    THEN "Sim (whitelist UF)"
    ELSE IF tem_ajuste /\ ~conformidade /\ usados # <<>>
    THEN "Parcial/Não (códigos fora da whitelist)"
    ELSE "Não se aplica / Ausente"

status(numeros, tem_ajuste) ==
    IF numeros = <<>> /\ ~tem_ajuste
    THEN "Não se aplica DIFAL"
    ELSE IF numeros # <<>> /\ ~tem_ajuste
    THEN "DIFAL não apurado (há 2551/2556 sem evidência)"
    ELSE IF numeros # <<>> /\ tem_ajuste
    THEN "DIFAL OK"
    ELSE "Ajuste presente sem NF 2551/2556 (verificar coerência)"

check_rows ==
    << ("Possui notas 2551/2556?" :> possui_notas(numeros_nfs_alvo))
       @@ ("Notas (nº)" :> nfs_list(numeros_nfs_alvo))
       @@ ("Tem código/ajuste DIFAL?" :> IF tem_ajuste_difal THEN "Sim" ELSE "Não")
       @@ ("Códigos/Descrições identificados" :>
               codigos_descricoes(ajustes_c197_validos, evid_periodo))
       @@ ("Está conforme legislação?" :>
               conforme_leg(tem_ajuste_difal, conformidade_whitelist, codigos_usados)) >>

resumo_rows ==
    << ("Status" :> status(numeros_nfs_alvo, tem_ajuste_difal))
       @@ ("Notas 2551/2556 (nº)" :> nfs_list(numeros_nfs_alvo))
       @@ ("Códigos Ajuste Encontrados" :> Join(codigos_usados, <<",", " ">>)) >>

\* the end of the stream: lines 299 and 374 to 499
Return ==
    /\ pc = "lines"
    /\ pc' = "done"
    /\ uf' = extrair_competencia_0000(text).uf
    /\ docs' = docs_finais
    /\ ajustes_e111_validos' = Validos(ajustes_e111_all, uf', REC_E111)
    /\ ajustes_e115_validos' = Validos(ajustes_e115_all, uf', REC_E115)
    /\ ajustes_e116_validos' = ValidosE116(ajustes_e116_all, uf')
    /\ ajustes_c197_validos' = Validos(ajustes_c197_all, uf', REC_C197)
    /\ numeros_nfs_alvo' = NumerosAlvo(docs_alvo(docs'))
    /\ evid_periodo' =
           EvidPeriodo(ajustes_e111_validos', ajustes_e115_validos', ajustes_e116_validos')
    /\ codigos_usados' =
           CodigosUsados(ajustes_c197_validos', ajustes_e111_validos',
                         ajustes_e115_validos', ajustes_e116_validos')
    /\ conformidade_whitelist' =
           Conformidade(uf', codigos_usados', ajustes_c197_validos',
                        ajustes_e111_validos', ajustes_e115_validos',
                        ajustes_e116_validos')
    /\ tem_ajuste_difal' = TemAjuste(ajustes_c197_validos', evid_periodo')
    /\ df_analise' =
           DataFrame(analise_rows(docs_alvo(docs'), ajustes_c197_validos', evid_periodo'))
    /\ df_sem' =
           DataFrame(sem_rows(docs_alvo(docs'), ajustes_c197_validos', evid_periodo'))
    /\ df_check' = DataFrame(check_rows')
    /\ df_resumo' = DataFrame(resumo_rows')
    /\ UNCHANGED <<text, current_doc, obs_por_doc, ajustes_c197_all, ajustes_e111_all,
                   ajustes_e115_all, ajustes_e116_all, coletor, cte, call, ret>>

Init ==
    /\ pc = "lines"
    /\ text = <<>>
    /\ current_doc = <<>>
    /\ docs = <<>>
    /\ obs_por_doc = <<>>
    /\ ajustes_c197_all = <<>>
    /\ ajustes_e111_all = <<>>
    /\ ajustes_e115_all = <<>>
    /\ ajustes_e116_all = <<>>
    /\ uf = <<>>
    /\ ajustes_c197_validos = <<>>
    /\ ajustes_e111_validos = <<>>
    /\ ajustes_e115_validos = <<>>
    /\ ajustes_e116_validos = <<>>
    /\ numeros_nfs_alvo = <<>>
    /\ evid_periodo = <<>>
    /\ codigos_usados = <<>>
    /\ conformidade_whitelist = FALSE
    /\ tem_ajuste_difal = FALSE
    /\ df_analise = NoTable
    /\ df_sem = NoTable
    /\ df_check = NoTable
    /\ df_resumo = NoTable
    /\ coletar_current_doc = NoDoc
    /\ coletar_c195 = <<>>
    /\ coletar_c197 = <<>>
    /\ coletar_e111 = <<>>
    /\ coletar_e115 = <<>>
    /\ coletar_e116 = <<>>
    /\ coletar_raised = FALSE
    /\ NoCte
    /\ call = NoCall
    /\ ret = NoRet

Next ==
    \/ LineSkipped
    \/ LineC100
    \/ LineC170
    \/ LineC195
    \/ LineC197
    \/ LineE111
    \/ LineE115
    \/ LineE116
    \/ LineOther
    \/ Return

Spec == Init /\ [][Next]_vars

\* the files made of TokenLines, read by both consumers
NextTokens ==
    \/ TokenSkipped
    \/ TokenC100
    \/ TokenC197
    \/ TokenOther

SpecTokens == Init /\ [][NextTokens]_vars

\* the files made of DocLines
NextDocs ==
    \/ DocC100
    \/ DocC170
    \/ DocC195
    \/ DocC197
    \/ DocOther
    \/ Return

SpecDocs == Init /\ [][NextDocs]_vars

(***************************************************************************)
(* Calls of the classifier functions on their own.                         *)
(***************************************************************************)
\* the state codes of a call: none, SP in both cases, PR, one without a table
CallUFs ==
    {
      <<>>,  \* ''
      <<"S","P">>,  \* 'SP'
      <<"s","p">>,  \* 'sp'
      <<"P","R">>,  \* 'PR'
      <<"X","X">>  \* 'XX'
    }

\* the record types the callers pass
CallRegistros == {REC_C197, REC_E111, REC_E115, REC_E116}

CallCods ==
    {
      <<>>,  \* ''
      <<" ","s","p","0","0","0","2","9","9"," ">>,  \* ' sp000299 '
      <<"S","P","0","0","0","2","0","7">>,  \* 'SP000207'
      <<"S","P","4","0","0","9","0","2","0","7">>,  \* 'SP40090207'
      <<"P","R","0","0","0","0","8","1">>,  \* 'PR000081'
      <<"X","1">>  \* 'X1'
    }

CallDescrs ==
    {
      <<>>,  \* ''
      <<"x">>,  \* 'x'
      <<"D","i","f","."," ","A","l","i","q">>,  \* 'Dif. Aliq'
      <<"U","S","O","/","C","O","N","S","U","M","O">>,  \* 'USO/CONSUMO'
      <<"D","i","f","e","r","e","n","ç","a"," ","d","e"," ","A","l","í","q","u","o","t","a">>,  \* 'Diferença de Alíquota'
      <<"f","r","e","t","e">>  \* 'frete'
    }

InitCall ==
    /\ pc = "call"
    /\ call \in [uf : CallUFs, registro : CallRegistros, cod : CallCods,
                 descr : CallDescrs]
    /\ ret = NoRet
    /\ text = <<>>
    /\ current_doc = <<>>
    /\ docs = <<>>
    /\ obs_por_doc = <<>>
    /\ ajustes_c197_all = <<>>
    /\ ajustes_e111_all = <<>>
    /\ ajustes_e115_all = <<>>
    /\ ajustes_e116_all = <<>>
    /\ uf = <<>>
    /\ ajustes_c197_validos = <<>>
    /\ ajustes_e111_validos = <<>>
    /\ ajustes_e115_validos = <<>>
    /\ ajustes_e116_validos = <<>>
    /\ numeros_nfs_alvo = <<>>
    /\ evid_periodo = <<>>
    /\ codigos_usados = <<>>
    /\ conformidade_whitelist = FALSE
    /\ tem_ajuste_difal = FALSE
    /\ df_analise = NoTable
    /\ df_sem = NoTable
    /\ df_check = NoTable
    /\ df_resumo = NoTable
    /\ coletar_current_doc = NoDoc
    /\ coletar_c195 = <<>>
    /\ coletar_c197 = <<>>
    /\ coletar_e111 = <<>>
    /\ coletar_e115 = <<>>
    /\ coletar_e116 = <<>>
    /\ coletar_raised = FALSE
    /\ NoCte

Call_eh_ajuste_difal ==
    /\ pc = "call"
    /\ pc' = "returned"
    /\ ret' = [fn    |-> "eh_ajuste_difal",
               value |-> eh_ajuste_difal(call.uf, call.registro, call.cod, call.descr)]
    /\ UNCHANGED <<call, text, parser, locals, tables, coletor, cte>>

Call_eh_codigo_difal_por_whitelist ==
    /\ pc = "call"
    /\ pc' = "returned"
    /\ ret' = [fn    |-> "eh_codigo_difal_por_whitelist",
               value |-> eh_codigo_difal_por_whitelist(call.uf, call.registro, call.cod)]
    /\ UNCHANGED <<call, text, parser, locals, tables, coletor, cte>>

NextCall ==
    \/ Call_eh_ajuste_difal
    \/ Call_eh_codigo_difal_por_whitelist

SpecCall == InitCall /\ [][NextCall]_vars

(***************************************************************************)
(* Calls of extrair_competencia_0000 on the first lines of a file.         *)
(***************************************************************************)
\* a header whose start date has 4 characters
\*   |0000|1|0|0101|31012024|ACME|123||SP|
H_SHORT_DATE ==
    <<"|","0","0","0","0","|","1","|","0","|","0","1","0","1","|","3","1","0","1","2","0","2","4","|","A","C","M","E","|","1","2","3","|","|","S","P","|">>

\* a header that ends before the start date
\*   |0000|1|0|
H_NO_DATE ==
    <<"|","0","0","0","0","|","1","|","0","|">>

\* a header without any field
\*   |0000|
H_BARE ==
    <<"|","0","0","0","0","|">>

\* a padded header: period 02/2024, state rj
\*    | 0000 |1|0| 01022024 |29022024| B |9||rj|
H_PAD ==
    <<" ","|"," ","0","0","0","0"," ","|","1","|","0","|"," ","0","1","0","2","2","0","2","4"," ","|","2","9","0","2","2","0","2","4","|"," ","B"," ","|","9","|","|","r","j","|">>

\* the lines a header is looked for in
HeaderLines == {L_0000, H_SHORT_DATE, H_NO_DATE, H_BARE, H_PAD, L_TEXT, L_C100_A}

\* the state of the loops before their first line
Idle ==
    /\ current_doc = <<>>
    /\ docs = <<>>
    /\ obs_por_doc = <<>>
    /\ ajustes_c197_all = <<>>
    /\ ajustes_e111_all = <<>>
    /\ ajustes_e115_all = <<>>
    /\ ajustes_e116_all = <<>>
    /\ uf = <<>>
    /\ ajustes_c197_validos = <<>>
    /\ ajustes_e111_validos = <<>>
    /\ ajustes_e115_validos = <<>>
    /\ ajustes_e116_validos = <<>>
    /\ numeros_nfs_alvo = <<>>
    /\ evid_periodo = <<>>
    /\ codigos_usados = <<>>
    /\ conformidade_whitelist = FALSE
    /\ tem_ajuste_difal = FALSE
    /\ df_analise = NoTable
    /\ df_sem = NoTable
    /\ df_check = NoTable
    /\ df_resumo = NoTable
    /\ coletar_current_doc = NoDoc
    /\ coletar_c195 = <<>>
    /\ coletar_c197 = <<>>
    /\ coletar_e111 = <<>>
    /\ coletar_e115 = <<>>
    /\ coletar_e116 = <<>>
    /\ coletar_raised = FALSE
    /\ NoCte

InitHeader ==
    /\ pc = "call"
    /\ text \in UNION {[1..n -> HeaderLines] : n \in 0..MaxLines}
    /\ call = NoCall
    /\ ret = NoRet
    /\ Idle

Call_extrair_competencia_0000 ==
    /\ pc = "call"
    /\ pc' = "returned"
    /\ ret' = [fn |-> "extrair_competencia_0000", value |-> extrair_competencia_0000(text)]
    /\ UNCHANGED <<call, text, parser, locals, tables, coletor, cte>>

SpecHeader == InitHeader /\ [][Call_extrair_competencia_0000]_vars

(***************************************************************************)
(* Calls of parse_float_br and eh_cfop_alvo on their own.                  *)
(***************************************************************************)
\* all strings of at most n characters of chars
Strings(chars, n) == UNION {[1..k -> chars] : k \in 0..n}

\* the characters the generated numeric strings are made of
FloatChars == {"1", "0", ".", ",", "-", " ", "e", "x"}

\* numeric strings met in files, and strings that are no number
FloatNamed ==
    {
      <<"1","2","3","4",".","5","6">>,  \* '1234.56'
      <<"1",".","2","3","4",",","5","6">>,  \* '1.234,56'
      <<"1",".","2","3","4",".","5","6","7",",","8","9">>,  \* '1.234.567,89'
      <<"1"," ","2","3","4",".","5">>,  \* '1 234.5'
      <<"1","2",",","5">>,  \* '12,5'
      <<"-","3",",","5">>,  \* '-3,5'
      <<"1","e","3">>,  \* '1e3'
      <<"1",",","5","e","2">>,  \* '1,5e2'
      <<"i","n","f">>,  \* 'inf'
      <<"n","a","n">>,  \* 'nan'
      <<"-","i","n","f">>,  \* '-inf'
      <<"1","_","0","0","0">>,  \* '1_000'
      <<"a","b","c">>,  \* 'abc'
      <<"R","$"," ","1","0">>,  \* 'R$ 10'
      <<".">>,  \* '.'
      <<" ">>,  \* ' '
      <<"1",",","2",",","3">>,  \* '1,2,3'
      <<"0">>,  \* '0'
      <<"-","0",".","0">>  \* '-0.0'
    }

FloatInputs == Strings(FloatChars, MaxLen) \cup FloatNamed \cup {None}

InitFloat ==
    /\ pc = "call"
    /\ call \in [x : FloatInputs]
    /\ ret = NoRet
    /\ text = <<>>
    /\ Idle

Call_parse_float_br ==
    /\ pc = "call"
    /\ pc' = "returned"
    /\ ret' = [fn |-> "parse_float_br", value |-> parse_float_br(call.x)]
    /\ UNCHANGED <<call, text, parser, locals, tables, coletor, cte>>

SpecFloat == InitFloat /\ [][Call_parse_float_br]_vars

\* the digits the generated CFOPs are made of
CfopDigits == {"1", "2", "5", "6"}

\* d.ddd for the four digits dddd
DotGrouped(cf) == <<cf[1], ".">> \o Tail(cf)

\* the CFOP field of an item: four digits, plain or dot-grouped, padded or
\* empty
CfopInputs ==
    {<<>>, <<" ","2","5","5","1"," ">>, <<"2","5",".","5","1">>, <<"2","5","5","1",".">>}
    \cup [1..4 -> CfopDigits]
    \cup {DotGrouped(cf) : cf \in [1..4 -> CfopDigits]}

InitCfop ==
    /\ pc = "call"
    /\ call \in [cfop : CfopInputs]
    /\ ret = NoRet
    /\ text = <<>>
    /\ Idle

Call_eh_cfop_alvo ==
    /\ pc = "call"
    /\ pc' = "returned"
    /\ ret' = [fn |-> "eh_cfop_alvo", value |-> eh_cfop_alvo(call.cfop)]
    /\ UNCHANGED <<call, text, parser, locals, tables, coletor, cte>>

SpecCfop == InitCfop /\ [][Call_eh_cfop_alvo]_vars

(***************************************************************************)
(* cte_parse: the CT-e detail and summary tables.                          *)
(***************************************************************************)
\* a transport document: series 1, number 100, key KA, issued 01/02/2024,
\* total 50, base 40, tax 5
\*   |D100|0|1|T|57|00|1||100|KA|01022024||||50,00|||40,00||5,00|
D_100_A ==
    <<"|","D","1","0","0","|","0","|","1","|","T","|","5","7","|","0","0","|","1","|","|","1","0","0","|","K","A","|","0","1","0","2","2","0","2","4","|","|","|","|","5","0",",","0","0","|","|","|","4","0",",","0","0","|","|","5",",","0","0","|">>

\* another one: series 2, number 200, key KB, a date of 6 characters, total 80,
\* base 80, tax 8
\*   |D100|0|1|T|57|00|2||200|KB|030224||||80,00|||80,00||8,00|
D_100_B ==
    <<"|","D","1","0","0","|","0","|","1","|","T","|","5","7","|","0","0","|","2","|","|","2","0","0","|","K","B","|","0","3","0","2","2","4","|","|","|","|","8","0",",","0","0","|","|","|","8","0",",","0","0","|","|","8",",","0","0","|">>

\* a transport document that ends before its series
\*   |D100|0|1|
D_100_SHORT ==
    <<"|","D","1","0","0","|","0","|","1","|">>

\* an analytic record: CST 00, CFOP 5353, rate 10, operation 20, base 20, tax 2
\*   |D190|00|5353|10|20,00|20,00|2,00|
D_190_A ==
    <<"|","D","1","9","0","|","0","0","|","5","3","5","3","|","1","0","|","2","0",",","0","0","|","2","0",",","0","0","|","2",",","0","0","|">>

\* an analytic record of the same CFOP and CST: operation 2,5, base 2,5, tax 0,5
\*   |D190|00|5353|20|2,50|2,50|0,50|
D_190_B ==
    <<"|","D","1","9","0","|","0","0","|","5","3","5","3","|","2","0","|","2",",","5","0","|","2",",","5","0","|","0",",","5","0","|">>

\* an analytic record without amounts: CST 90, CFOP 1353
\*   |D190|90|1353|
D_190_Z ==
    <<"|","D","1","9","0","|","9","0","|","1","3","5","3","|">>

\* the lines of the files given to cte_parse
CteLines ==
    {L_0000, L_TEXT, D_100_A, D_100_B, D_100_SHORT, D_190_A, D_190_B, D_190_Z}

\* linhas[:n]
FirstLines(linhas, n) == SubSeq(linhas, 1, IF Len(linhas) < n THEN Len(linhas) ELSE n)

\* the number of leading lines the header is looked for in
CteHeaderLines == 20

REC_D100 == <<"D","1","0","0">>
REC_D190 == <<"D","1","9","0">>

N_A == <<"N","/","A">>

\* str.isdigit()
IsDigit(s) == s # <<>> /\ \A i \in DOMAIN s : s[i] \in Digits

formatar_data_ddmmyyyy(data_8) ==
    IF Len(data_8) = 8 /\ IsDigit(data_8)
    THEN SubSeq(data_8, 1, 2) \o <<"/">> \o SubSeq(data_8, 3, 4) \o <<"/">>
         \o SubSeq(data_8, 5, 8)
    ELSE data_8

\* linha.strip().split("|"), with "" appended when the line ends with "|"
Campos(linha) ==
    LET s == Strip(linha)
        c == Split(s, "|")
    IN IF s # <<>> /\ s[Len(s)] = "|" THEN Append(c, <<>>) ELSE c

\* not campos or len(campos) < 2, tested before the append
CteShort(linha) == Len(Split(Strip(linha), "|")) < 2

\* len(campos) > k and campos[k].strip()
Filled(campos, k) == Len(campos) > k /\ Strip(campos[k + 1]) # <<>>

\* campos[k] if len(campos) > k and campos[k].strip() else 'N/A'
TextOr(campos, k) == IF Filled(campos, k) THEN campos[k + 1] ELSE N_A

\* parse_float_br(campos[k]) if len(campos) > k and campos[k].strip() else 0.0
NumberOr(campos, k) == IF Filled(campos, k) THEN parse_float_br(campos[k + 1]) ELSE Zero

\* the dict a D100 line fills; parse_float_br and formatar_data_ddmmyyyy
\* raise nothing, so the except branch is never taken
D100Dict(comp, campos) ==
    ("Competência" :> comp)
    @@ ("Chave CT-e" :> TextOr(campos, 10))
    @@ ("Série CT-e" :> TextOr(campos, 7))
    @@ ("Número CT-e" :> TextOr(campos, 9))
    @@ ("Data Emissão" :>
            IF Filled(campos, 11) THEN formatar_data_ddmmyyyy(campos[12]) ELSE N_A)
    @@ ("Valor Total CT-e (D100)" :> NumberOr(campos, 15))
    @@ ("BC ICMS CT-e (D100)" :> NumberOr(campos, 18))
    @@ ("Valor ICMS CT-e (D100)" :> NumberOr(campos, 20))

\* (ic / vl_opr * 100) if vl_opr != 0 else 0.0; the quotient of two floats
\* is kept as its operands
AliquotaEfetiva(ic, vl_opr) ==
    IF vl_opr = Zero THEN Zero
    ELSE [dividend |-> ic, divisor |-> vl_opr, times |-> 100]

\* the row a D190 line appends: a copy of the dict d100 with the fields of
\* the line and the padding
D190Row(d100, campos) ==
    d100
    @@ ("CST CT-e" :> TextOr(campos, 2))
    @@ ("CFOP (D190)" :> TextOr(campos, 3))
    @@ ("Alíquota ICMS (D190)" :> NumberOr(campos, 4))
    @@ ("Valor Operação (D190)" :> NumberOr(campos, 5))
    @@ ("BC ICMS (D190)" :> NumberOr(campos, 6))
    @@ ("Valor ICMS (D190)" :> NumberOr(campos, 7))
    @@ ("Alíquota Efetiva (%)" :> AliquotaEfetiva(NumberOr(campos, 7), NumberOr(campos, 5)))
    @@ ("Num. Item" :> "Não se Aplica")
    @@ ("Cód. Item" :> "Não se Aplica")
    @@ ("Descrição do Produto" :> "Serviço de Transporte")
    @@ ("Alíquota IPI Item (%)" :> "Não se Aplica")
    @@ ("Valor IPI Item" :> "Não se Aplica")
    @@ ("NCM Item" :> "Não se Aplica")
    @@ ("Valor IPI Nota" :> "Não se Aplica")

cols_order ==
    {"Competência", "Chave CT-e", "Série CT-e", "Número CT-e", "Data Emissão",
     "CST CT-e", "CFOP (D190)", "Valor Operação (D190)", "Alíquota ICMS (D190)",
     "BC ICMS (D190)", "Valor ICMS (D190)", "Alíquota Efetiva (%)",
     "Valor Total CT-e (D100)", "BC ICMS CT-e (D100)", "Valor ICMS CT-e (D100)",
     "Num. Item", "Cód. Item", "Descrição do Produto", "Alíquota IPI Item (%)",
     "Valor IPI Item", "NCM Item", "Valor IPI Nota"}

ResumoCteColumns ==
    {"CFOP (D190)", "CST CT-e", "Valor Contábil (Resumo)", "BC ICMS (Resumo)",
     "Valor ICMS (Resumo)"}

\* df[[c for c in cols_order if c in df.columns]]
SelectColumns(df, cols) ==
    [columns |-> df.columns \cap cols,
     rows |-> [i \in DOMAIN df.rows |->
                  [c \in DOMAIN df.rows[i] \cap cols |-> df.rows[i][c]]]]

\* a + b for two floats, exact as decimals
Add(a, b) ==
    IF a.special = "nan" \/ b.special = "nan" THEN Special("nan")
    ELSE IF a.special # "" /\ b.special # ""
         THEN IF a.special = b.special THEN a ELSE Special("nan")
    ELSE IF a.special # "" THEN a
    ELSE IF b.special # "" THEN b
    ELSE IF a.mant = 0 THEN b
    ELSE IF b.mant = 0 THEN a
    ELSE IF a.exp >= b.exp
         THEN Normalise(a.mant + b.mant * Pow10(a.exp - b.exp), a.exp)
         ELSE Normalise(a.mant * Pow10(b.exp - a.exp) + b.mant, b.exp)

\* the sum of a column over the rows of a group: NaN is skipped, and the
\* sum of nothing is 0.0
RECURSIVE GroupSum(_, _)
GroupSum(rows, col) ==
    IF rows = <<>> THEN Zero
    ELSE IF rows[Len(rows)][col].special = "nan"
         THEN GroupSum(SubSeq(rows, 1, Len(rows) - 1), col)
    ELSE Add(GroupSum(SubSeq(rows, 1, Len(rows) - 1), col), rows[Len(rows)][col])

\* the group key of a detail row
GroupKey(row) == <<row["CFOP (D190)"], row["CST CT-e"]>>

\* k <= l for two group keys
KeyLeq(k, l) == IF k[1] = l[1] THEN StrLeq(k[2], l[2]) ELSE StrLeq(k[1], l[1])

\* the group keys in ascending order
SortedKeys(rows) ==
    LET keys == {GroupKey(rows[i]) : i \in DOMAIN rows}
    IN [i \in 1..Cardinality(keys) |->
           CHOOSE k \in keys : Cardinality({l \in keys : KeyLeq(l, k)}) = i]

\* the rows of a group, in the order of the table
RowsOfGroup(rows, k) == SelectSeq(rows, LAMBDA r : GroupKey(r) = k)

\* df.groupby(['CFOP (D190)', 'CST CT-e'], as_index=False).agg(sum of the
\* three amounts).rename(...)
Resumo(df) ==
    LET keys == SortedKeys(df.rows)
    IN [columns |-> ResumoCteColumns,
        rows |-> [i \in DOMAIN keys |->
                    ("CFOP (D190)" :> keys[i][1])
                    @@ ("CST CT-e" :> keys[i][2])
                    @@ ("Valor Contábil (Resumo)" :>
                            GroupSum(RowsOfGroup(df.rows, keys[i]), "Valor Operação (D190)"))
                    @@ ("BC ICMS (Resumo)" :>
                            GroupSum(RowsOfGroup(df.rows, keys[i]), "BC ICMS (D190)"))
                    @@ ("Valor ICMS (Resumo)" :>
                            GroupSum(RowsOfGroup(df.rows, keys[i]), "Valor ICMS (D190)"))]]

\* what the loop of cte_parse reads in each line of the files
CteRead ==
    [linha \in CteLines |-> [short |-> CteShort(linha), campos |-> Campos(linha)]]

\* reg = campos[1]
Reg(ln) == ln.campos[2]

\* cte_parse(text) was called with the lines of a file
InitCte ==
    /\ pc = "cte"
    /\ text \in UNION {[1..n -> CteLines] : n \in 0..MaxLines}
    /\ call = NoCall
    /\ ret = NoRet
    /\ Idle

\* the statements before the loop
CteEnter ==
    /\ pc = "cte"
    /\ pc' = "cte_loop"
    /\ cte_comp' = extrair_competencia_0000(FirstLines(text, CteHeaderLines)).comp
    /\ cte_idx' = 0
    /\ cte_d100' = <<>>
    /\ cte_todos' = <<>>
    /\ UNCHANGED <<cte_df, cte_df_resumo, text, parser, locals, tables, coletor, call, ret>>

\* the loop takes its next line
CteNext ==
    /\ pc = "cte_loop"
    /\ cte_idx < Len(text)
    /\ cte_idx' = cte_idx + 1
    /\ UNCHANGED <<pc, cte_comp, cte_df, cte_df_resumo, text, parser, locals, tables,
                   coletor, call, ret>>

\* the line the loop takes
Linha == CteRead[text[cte_idx + 1]]

CteSkipped ==
    /\ CteNext
    /\ Linha.short
    /\ UNCHANGED <<cte_d100, cte_todos>>

\* a D100 that keeps the dict of an earlier D100
cte_d100_first_kept ==
    /\ CteNext
    /\ ~Linha.short
    /\ Reg(Linha) = REC_D100
    /\ cte_d100' = IF cte_d100 = <<>> THEN <<D100Dict(cte_comp, Linha.campos)>>
                   ELSE cte_d100
    /\ UNCHANGED cte_todos

CteD100 ==
    /\ CteNext
    /\ ~Linha.short
    /\ Reg(Linha) = REC_D100
    /\ cte_d100' = <<D100Dict(cte_comp, Linha.campos)>>
    /\ UNCHANGED cte_todos

CteD190 ==
    /\ CteNext
    /\ ~Linha.short
    /\ Reg(Linha) = REC_D190
    /\ cte_d100 # <<>>
    /\ cte_todos' = Append(cte_todos, D190Row(cte_d100[1], Linha.campos))
    /\ UNCHANGED cte_d100

\* any other record type, and a D190 while d100 is empty
CteOther ==
    /\ CteNext
    /\ ~Linha.short
    /\ Reg(Linha) # REC_D100
    /\ ~(Reg(Linha) = REC_D190 /\ cte_d100 # <<>>)
    /\ UNCHANGED <<cte_d100, cte_todos>>

\* the statements after the loop
CteReturn ==
    /\ pc = "cte_loop"
    /\ cte_idx = Len(text)
    /\ pc' = "cte_done"
    /\ cte_df' = IF cte_todos = <<>> THEN [columns |-> cols_order, rows |-> <<>>]
                 ELSE SelectColumns(DataFrame(cte_todos), cols_order)
    /\ cte_df_resumo' = IF cte_todos = <<>> THEN [columns |-> ResumoCteColumns, rows |-> <<>>]
                        ELSE Resumo(cte_df')
    /\ UNCHANGED <<cte_comp, cte_idx, cte_d100, cte_todos, text, parser, locals, tables,
                   coletor, call, ret>>

NextCte ==
    \/ CteEnter
    \/ CteSkipped
    \/ CteD100
    \/ CteD190
    \/ CteOther
    \/ CteReturn

SpecCte == InitCte /\ [][NextCte]_vars

(***************************************************************************)
(* The classifier: decision order and whitelist scope.                     *)
(***************************************************************************)
\* the code as the classifier compares it: trimmed and upper-cased
CodeKey(cod) == Upper(Strip(cod))

\* the table of state u lists cod under record type reg or under the wildcard
Listed(u, reg, cod) ==
    \E t \in DIFAL_CODES_UF :
        t[1] = Upper(u) /\ t[3] = cod /\ (t[2] = ANY \/ t[2] = Upper(reg))

\* the normalized description contains a keyword phrase
HasKeyword(descr) ==
    \E s \in {norm_txt(descr)} :
        \E kw \in KEYWORDS_DIFAL :
            \E i \in 1..(Len(s) - Len(kw) + 1) : SubSeq(s, i, i + Len(kw) - 1) = kw

\* C5: eh_ajuste_difal decides in the order exclusion, whitelist, keyword: an
\* excluded code gives false whatever the state and description; otherwise a
\* code whitelisted for the state and record type gives true whatever the
\* description; otherwise the result is true exactly when the normalized
\* description contains a keyword phrase.
C5_DecisionOrder ==
    (pc = "returned" /\ ret.fn = "eh_ajuste_difal") =>
        /\ CodeKey(call.cod) \in EXCLUDE_CODES => ret.value = FALSE
        /\ ( /\ CodeKey(call.cod) \notin EXCLUDE_CODES
             /\ Listed(call.uf, call.registro, CodeKey(call.cod)) )
               => ret.value = TRUE
        /\ ( /\ CodeKey(call.cod) \notin EXCLUDE_CODES
             /\ ~Listed(call.uf, call.registro, CodeKey(call.cod)) )
               => ret.value = HasKeyword(call.descr)

\* an excluded code with a keyword description was classified, and rejected
C5_Witness ==
    /\ pc = "returned" /\ ret.fn = "eh_ajuste_difal"
    /\ CodeKey(call.cod) \in EXCLUDE_CODES
    /\ call.cod # CodeKey(call.cod)
    /\ HasKeyword(call.descr)
    /\ ret.value = FALSE

\* the states that have a table
TableStates == {t[1] : t \in DIFAL_CODES_UF}

\* C6: eh_codigo_difal_por_whitelist is scoped by state and record type: it
\* returns true only if the trimmed, upper-cased code is listed in the table of
\* the given state under the wildcard or the given record type; a code listed
\* only under another record type or another state, or queried with an empty
\* or unknown state, is not whitelisted.
C6_WhitelistScoped ==
    (pc = "returned" /\ ret.fn = "eh_codigo_difal_por_whitelist") =>
        /\ ret.value => Listed(call.uf, call.registro, CodeKey(call.cod))
        /\ Upper(call.uf) \notin TableStates => ret.value = FALSE
        /\ ( /\ call.uf = <<"S","P">>
             /\ call.registro = REC_C197
             /\ call.cod = <<"S","P","0","0","0","2","0","7">> )
               => ret.value = FALSE
        /\ ( /\ call.uf = <<"P","R">>
             /\ call.cod = <<"S","P","0","0","0","2","0","7">> )
               => ret.value = FALSE

\* SP000207, listed in SP for E111 only, was looked up in SP as a C197 code
C6_Witness ==
    /\ pc = "returned" /\ ret.fn = "eh_codigo_difal_por_whitelist"
    /\ call.uf = <<"S","P">>
    /\ call.registro = REC_C197
    /\ call.cod = <<"S","P","0","0","0","2","0","7">>
    /\ \E t \in DIFAL_CODES_UF : t[1] = call.uf /\ t[3] = call.cod
    /\ ret.value = FALSE

(***************************************************************************)
(* The audit: documents.                                                   *)
(***************************************************************************)
\* the line is dispatched as a record of type rec
IsRecord(raw, rec) == ~Seen[raw].skipped /\ Seen[raw].rec = rec

\* the positions of the C100 lines of the file
C100Positions == {k \in DOMAIN text : IsRecord(text[k], REC_C100)}

\* the position of the i-th C100 line
NthC100(i) ==
    CHOOSE k \in C100Positions : Cardinality({j \in C100Positions : j <= k}) = i

\* the C170 lines between the i-th C100 line and the next one (or the end)
ItemLinesOf(i) ==
    {k \in DOMAIN text :
        /\ IsRecord(text[k], REC_C170)
        /\ k > NthC100(i)
        /\ \A j \in C100Positions : j > NthC100(i) => k < j}

\* document d was opened by the C100 line at position k
OpenedBy(d, k) ==
    /\ d.serie  = Field(Seen[text[k]].parts, 7)
    /\ d.numero = Field(Seen[text[k]].parts, 8)
    /\ d.chave  = Field(Seen[text[k]].parts, 9)

\* C1: every C100 line closes the open document and opens a new one, and the
\* end of the stream closes the last one: while the lines are read the
\* finalized documents are those of all C100 lines but the last, which is the
\* open one; at the end the finalized list holds exactly one document per C100
\* line, in the order of the lines, each with the items that followed its line.
C1_EachC100OneDocument ==
    LET n == Cardinality(C100Positions)
    IN /\ pc = "lines" =>
            /\ (current_doc = <<>>) = (n = 0)
            /\ Len(docs) = IF n = 0 THEN 0 ELSE n - 1
            /\ n > 0 => /\ OpenedBy(current_doc[1], NthC100(n))
                        /\ Len(current_doc[1].itens) = Cardinality(ItemLinesOf(n))
       /\ pc = "done" => Len(docs) = n
       /\ pc \in {"lines", "done"} =>
            \A i \in DOMAIN docs :
                /\ OpenedBy(docs[i], NthC100(i))
                /\ Len(docs[i].itens) = Cardinality(ItemLinesOf(i))

\* a file with two C100 lines of different documents, the first with an item,
\* was read to its end
C1_Witness ==
    /\ pc = "done"
    /\ Len(docs) = 2
    /\ doc_id(docs[1]) # doc_id(docs[2])
    /\ Len(docs[1].itens) = 1
    /\ Len(docs[2].itens) = 0

(***************************************************************************)
(* The audit: the analysis table and the unevidenced table.                *)
(***************************************************************************)
\* the items with CFOP 2551/2556 of the finalized documents, as
\* (document index, item index)
TargetItems ==
    UNION {{<<i, k>> : k \in {k \in DOMAIN docs[i].itens :
                                  eh_cfop_alvo(docs[i].itens[k].cfop)}} :
           i \in DOMAIN docs}

\* what a row tells of its item: the document identity and the item fields
ItemKey(p) ==
    <<docs[p[1]].serie, docs[p[1]].numero, docs[p[1]].chave,
      docs[p[1]].itens[p[2]].cfop, docs[p[1]].itens[p[2]].desc,
      docs[p[1]].itens[p[2]].vl_item>>

RowItemKey(r) ==
    <<r["Série"], r["Número NF"], r["Chave NF-e"], r["CFOP"],
      r["Descrição do Item"], r["Valor Total Item"]>>

\* the adjustment of an analysis row: record type, code, description, value
RowAdjustment(r) ==
    <<r["Registro Ajuste"], r["Cód. Ajuste DIFAL"], r["Descrição Ajuste"],
      r["Valor Ajuste"]>>

\* the number of target items that rows cannot tell from p
SameKey(p) == Cardinality({q \in TargetItems : ItemKey(q) = ItemKey(p)})

\* the number of analysis rows of the items with p's key
AnalysisRowsOf(p) ==
    Cardinality({j \in DOMAIN df_analise.rows :
                    RowItemKey(df_analise.rows[j]) = ItemKey(p)})

\* the number of those that carry the adjustment e
AnalysisRowsWith(p, e) ==
    Cardinality({j \in DOMAIN df_analise.rows :
                    /\ RowItemKey(df_analise.rows[j]) = ItemKey(p)
                    /\ RowAdjustment(df_analise.rows[j]) = e})

\* the number of unevidenced rows of the items with p's key
UnevidencedRowsOf(p) ==
    Cardinality({j \in DOMAIN df_sem.rows :
                    RowItemKey(df_sem.rows[j]) = ItemKey(p)})

\* the number of times e occurs in the sequence s
Mult(s, e) == Cardinality({j \in DOMAIN s : s[j] = e})

\* the own evidence of document i: the collected C197 keyed to its identity
\* that the classifier accepts, then the C195 pseudo-adjustment when an
\* observation keyed to its identity mentions DIFAL
OwnEvidence(i) ==
    LET did     == doc_id(docs[i])
        Own(a)  == a[4] = did /\ eh_ajuste_difal(uf, REC_C197, a[1], a[2])
        c197    == SelectSeq(ajustes_c197_all, Own)
        mention == \E o \in DOMAIN obs_por_doc :
                       /\ obs_por_doc[o].did = did
                       /\ \E t \in DOMAIN obs_por_doc[o].oblist :
                              eh_desc_difal(obs_por_doc[o].oblist[t])
    IN [j \in DOMAIN c197 |-> <<REC_C197, c197[j][1], c197[j][2], c197[j][3]>>]
       \o (IF mention THEN <<<<REC_C195, <<>>, OBS_C195, Zero>>>> ELSE <<>>)

\* the period-level evidence of the file: the collected E111, E115 and E116
\* that the classifier accepts
PeriodEvidence ==
    LET Ok111(a) == eh_ajuste_difal(uf, REC_E111, a[1], a[2])
        Ok115(a) == eh_ajuste_difal(uf, REC_E115, a[1], a[2])
        Ok116(a) == eh_ajuste_difal(uf, REC_E116, Or(a[4], a[1]), a[2])
        e111 == SelectSeq(ajustes_e111_all, Ok111)
        e115 == SelectSeq(ajustes_e115_all, Ok115)
        e116 == SelectSeq(ajustes_e116_all, Ok116)
    IN [j \in DOMAIN e111 |-> <<REC_E111, e111[j][1], e111[j][2], e111[j][3]>>]
       \o [j \in DOMAIN e115 |-> <<REC_E115, e115[j][1], e115[j][2], e115[j][3]>>]
       \o [j \in DOMAIN e116 |->
               <<REC_E116, Or(e116[j][4], e116[j][1]), e116[j][2], e116[j][3]>>]

PeriodRecords == {REC_E111, REC_E115, REC_E116}

C3_PeriodFallback ==
    pc = "done" =>
        \A p \in TargetItems :
            (OwnEvidence(p[1]) = <<>> /\ PeriodEvidence # <<>>) =>
                /\ AnalysisRowsOf(p) = SameKey(p) * Len(PeriodEvidence)
                /\ \A j \in DOMAIN PeriodEvidence :
                       AnalysisRowsWith(p, PeriodEvidence[j])
                           = SameKey(p) * Mult(PeriodEvidence, PeriodEvidence[j])
                /\ UnevidencedRowsOf(p) = 0

\* a 2551 item of a document without own evidence was reported in a file
\* whose period-level evidence comes before the document
C3_Witness ==
    /\ pc = "done"
    /\ PeriodEvidence # <<>>
    /\ \E k \in DOMAIN text :
           /\ \E rec \in PeriodRecords : IsRecord(text[k], rec)
           /\ \A j \in C100Positions : k < j
    /\ \E p \in TargetItems :
           /\ OwnEvidence(p[1]) = <<>>
           /\ AnalysisRowsOf(p) = Len(PeriodEvidence)

\* the placeholder adjustment: empty record type, code and description, 0.0
Placeholder == <<<<>>, <<>>, <<>>, Zero>>

\* C4: a 2551/2556 item of a document with neither own evidence nor any
\* period-level evidence in the file appears exactly once in the unevidenced
\* table and exactly once in the analysis table, as a placeholder row with
\* empty adjustment record type, code and description and value 0.0.
C4_NoEvidence ==
    pc = "done" =>
        \A p \in TargetItems :
            (OwnEvidence(p[1]) = <<>> /\ PeriodEvidence = <<>>) =>
                /\ UnevidencedRowsOf(p) = SameKey(p)
                /\ AnalysisRowsOf(p) = SameKey(p)
                /\ AnalysisRowsWith(p, Placeholder) = SameKey(p)

\* a 2551 item was reported without evidence although its document has a
\* C197 and the file an E111, both rejected by the classifier
C4_Witness ==
    /\ pc = "done"
    /\ ajustes_c197_all # <<>>
    /\ ajustes_e111_all # <<>>
    /\ PeriodEvidence = <<>>
    /\ \E p \in TargetItems :
           /\ OwnEvidence(p[1]) = <<>>
           /\ UnevidencedRowsOf(p) = 1
           /\ AnalysisRowsWith(p, Placeholder) = 1

(***************************************************************************)
(* The audit: the checklist row and the summary row.                       *)
(***************************************************************************)
\* the adjustment records of the file that the classifier accepts, as
\* (record type, code, description, value)
AcceptedAdjustments ==
    LET Ok(a) == eh_ajuste_difal(uf, REC_C197, a[1], a[2])
        c197  == SelectSeq(ajustes_c197_all, Ok)
    IN [j \in DOMAIN c197 |-> <<REC_C197, c197[j][1], c197[j][2], c197[j][3]>>]
       \o PeriodEvidence

\* the file has a note with a 2551/2556 item
HasTargetNotes == TargetItems # {}

\* the file has a DIFAL adjustment
HasAdjustment == AcceptedAdjustments # <<>>

\* the 4-way decision table
StatusTable(notes, adjustment) ==
    CASE ~notes /\ ~adjustment -> "Não se aplica DIFAL"
      [] notes /\ ~adjustment  -> "DIFAL não apurado (há 2551/2556 sem evidência)"
      [] notes /\ adjustment   -> "DIFAL OK"
      [] ~notes /\ adjustment  -> "Ajuste presente sem NF 2551/2556 (verificar coerência)"

\* C7: every file yields exactly one summary row, whose status follows the
\* 4-way decision table over (the file has 2551/2556 notes, the file has a
\* DIFAL adjustment).
C7_StatusTable ==
    pc = "done" =>
        /\ Len(df_resumo.rows) = 1
        /\ df_resumo.rows[1]["Status"] = StatusTable(HasTargetNotes, HasAdjustment)

\* adjustment e is covered by the whitelist of the file's state under the
\* record type it was found in
Covered(e) == Listed(uf, e[1], e[2])

\* adjustment e was accepted by the keyword heuristic only
KeywordOnly(e) == ~Covered(e) /\ HasKeyword(e[3])

\* the compliance verdict of the checklist row
Verdict == df_check.rows[1]["Está conforme legislação?"]

AnaliseColumns ==
    {"Série", "Número NF", "Chave NF-e", "CFOP", "Descrição do Item",
     "Valor Total Item", "Registro Ajuste", "Cód. Ajuste DIFAL", "Valor Ajuste",
     "Descrição Ajuste"}

SemColumns ==
    {"Série", "Número NF", "Chave NF-e", "CFOP", "Descrição do Item",
     "Valor Total Item", "Observação"}

CheckColumns ==
    {"Possui notas 2551/2556?", "Notas (nº)", "Tem código/ajuste DIFAL?",
     "Códigos/Descrições identificados", "Está conforme legislação?"}

ResumoColumns == {"Status", "Notas 2551/2556 (nº)", "Códigos Ajuste Encontrados"}

\* C9: the four tables are returned with their documented columns, the
\* analysis table and the unevidenced table also when they have no row.
C9_TablesCarryColumns ==
    pc = "done" =>
        /\ df_analise.columns = AnaliseColumns
        /\ df_sem.columns = SemColumns
        /\ df_check.columns = CheckColumns
        /\ df_resumo.columns = ResumoColumns

\* the numbers of the documents that hold a 2551/2556 item
TargetNumbers == {docs[p[1]].numero : p \in TargetItems}

\* C10: 'Possui notas 2551/2556?' is 'Sim' if and only if a finalized
\* document holds a 2551/2556 item, the listed numbers are exactly the numbers
\* of those documents, and the field is 'Sim' whenever the analysis table has
\* a row.
C10_PossuiNotas ==
    pc = "done" =>
        /\ (df_check.rows[1]["Possui notas 2551/2556?"] = "Sim") = HasTargetNotes
        /\ df_check.rows[1]["Notas (nº)"] = Join(Sorted(TargetNumbers), <<",", " ">>)
        /\ df_analise.rows # <<>> => df_check.rows[1]["Possui notas 2551/2556?"] = "Sim"

(***************************************************************************)
(* The tokenizer as both consumers apply it.                               *)
(***************************************************************************)
\* the number of pipe-delimited tokens of a line: none for an empty line,
\* otherwise one more than its delimiters
TokenCount(raw) ==
    IF raw = <<>> THEN 0
    ELSE Cardinality({i \in DOMAIN raw : raw[i] = "|"}) + 1

\* the step reads the line raw
Reads(raw) == text' = Append(text, raw)

\* C11: a line with fewer than 2 pipe-delimited tokens raises no error and
\* leaves the state of both loops unchanged: the open document, the
\* finalized documents, the observations and every list of collected
\* adjustments of auditoria_difal_text, and the current document and every
\* row list of coletar_ajustes; no row is added to any table, the tables
\* being built from these lists alone.
C11_ShortLineNoEffect ==
    [][\A raw \in TokenLines :
          Reads(raw) /\ TokenCount(raw) < 2
              => parser' = parser /\ coletor' = coletor /\ ~coletar_raised']_vars

\* a line without a delimiter was read after a document and an adjustment
\* had been collected by both loops
C11_Witness ==
    /\ Len(text) >= 3
    /\ TokenCount(text[Len(text)]) < 2
    /\ current_doc # <<>> /\ ajustes_c197_all # <<>>
    /\ coletar_current_doc # NoDoc /\ coletar_c197 # <<>>

\* auditoria_difal_text takes the line raw as a record of type rec
AuditSees(raw, rec) == ~Seen[raw].skipped /\ Seen[raw].rec = rec

\* coletar_ajustes takes the line raw as a record of type rec
ColetorSees(raw, rec) == ~Collected[raw].short /\ Collected[raw].rec = rec

\* the document identity coletar_ajustes attached to a C197 row and the one
\* auditoria_difal_text attached to the same adjustment are the same
\* (series, number, key); an adjustment outside any document has none
SameIdentity(row, aj) ==
    \/ aj[4] = row["Série"] \o <<"|">> \o row["Número"] \o <<"|">> \o row["Chave"]
    \/ aj[4] = <<>> /\ row["Série"] = <<>> /\ row["Número"] = <<>> /\ row["Chave"] = <<>>

\* C12: for every text, coletar_ajustes and auditoria_difal_text recognise
\* the same lines as C100 and C197 records, and attribute each C197 to the
\* same (series, number, key) document identity, also when fields carry
\* surrounding whitespace.
C12_SameRecordsSameIdentity ==
    /\ \A i \in DOMAIN text : \A rec \in {REC_C100, REC_C197} :
           AuditSees(text[i], rec) <=> ColetorSees(text[i], rec)
    /\ Len(coletar_c197) = Len(ajustes_c197_all)
    /\ \A k \in DOMAIN coletar_c197 \cap DOMAIN ajustes_c197_all :
           SameIdentity(coletar_c197[k], ajustes_c197_all[k])

(***************************************************************************)
(* The header of a file.                                                   *)
(***************************************************************************)
\* the 0000 records among the scanned lines, as positions of text
HeaderPositions ==
    {i \in DOMAIN text :
        /\ i - 1 <= HeaderScanLimit
        /\ \E parts \in {StrippedParts(text[i])} : Len(parts) > 1 /\ parts[2] = REC_0000}

\* the trimmed field k of the first 0000 record (empty when absent)
HeaderField(k) ==
    LET first == CHOOSE i \in HeaderPositions : \A j \in HeaderPositions : i <= j
    IN Strip(Field(StrippedParts(text[first]), k))

\* no 0000 record is found, or its start-date field is absent or not 8
\* characters long
NoPeriod == HeaderPositions = {} \/ Len(HeaderField(4)) # 8

\* C13: when no 0000 record is found among the scanned lines, or its
\* start-date field is absent or not 8 characters long,
\* extrair_competencia_0000 returns a sentinel, non-empty, string as the
\* reporting period; company name, tax ID and state are the empty string
\* when no record is found or the field is absent.
C13_PeriodSentinel ==
    ret.fn = "extrair_competencia_0000" =>
        /\ NoPeriod => ret.value.comp # <<>>
        /\ HeaderPositions = {} =>
               ret.value.razao = <<>> /\ ret.value.cnpj = <<>> /\ ret.value.uf = <<>>
        /\ HeaderPositions # {} =>
               /\ ret.value.razao = HeaderField(6)
               /\ ret.value.cnpj = HeaderField(7)
               /\ ret.value.uf = Upper(HeaderField(9))

\* what the code does in the same cases: the period is the empty string
C13_PeriodEmpty ==
    ret.fn = "extrair_competencia_0000" =>
        /\ NoPeriod => ret.value.comp = <<>>
        /\ ~NoPeriod =>
               ret.value.comp = SubSeq(HeaderField(4), 3, 4) \o <<"/">> \o SubSeq(HeaderField(4), 5, 8)
        /\ HeaderPositions = {} =>
               ret.value.razao = <<>> /\ ret.value.cnpj = <<>> /\ ret.value.uf = <<>>
        /\ HeaderPositions # {} =>
               /\ ret.value.razao = HeaderField(6)
               /\ ret.value.cnpj = HeaderField(7)
               /\ ret.value.uf = Upper(HeaderField(9))

(***************************************************************************)
(* parse_float_br and eh_cfop_alvo.                                        *)
(***************************************************************************)
\* v is a float: a finite decimal, an infinity or nan, and no exception
IsNumber(v) ==
    /\ v.special \in {"", "inf", "-inf", "nan"}
    /\ v.mant \in Int /\ v.exp \in Int

\* float(x.replace(" ", "")) for the stripped x
Direct(x) == Float(Replace(Strip(x), " ", <<>>))

\* float(x.replace(".", "").replace(",", ".")) for the stripped x
Fallback(x) == Float(BrazilianForm(Strip(x)))

\* 1234.56
N1234_56 == [mant |-> 123456, exp |-> 2, special |-> ""]

\* C14: parse_float_br is total: for every string and for None it returns a
\* number and never raises; None, the empty string and text neither parse
\* accepts give 0.0; the direct parse is tried before the Brazilian-format
\* fallback, so '1234.56' gives 1234.56 and '1.234,56' gives 1234.56.
C14_ParseTotal ==
    ret.fn = "parse_float_br" =>
        \E x \in {call.x}, v \in {ret.value} :
            /\ IsNumber(v)
            /\ x = None \/ Strip(x) = <<>> => v = Zero
            /\ x # None /\ Strip(x) # <<>> =>
                   \E d \in {Direct(x)} :
                       IF d # ValueError THEN v = d
                       ELSE \E f \in {Fallback(x)} :
                                v = IF f # ValueError THEN f ELSE Zero
            /\ x = <<"1","2","3","4",".","5","6">> => v = N1234_56
            /\ x = <<"1",".","2","3","4",",","5","6">> => v = N1234_56
            /\ x = <<"a","b","c">> => v = Zero

\* '1.234,56' was parsed by the fallback, the direct parse having failed
C14_Witness ==
    /\ ret.fn = "parse_float_br"
    /\ call.x = <<"1",".","2","3","4",",","5","6">>
    /\ Direct(call.x) = ValueError
    /\ ret.value = N1234_56

C2551 == <<"2","5","5","1">>
C2556 == <<"2","5","5","6">>
C2552 == <<"2","5","5","2">>

\* C15: eh_cfop_alvo classifies a CFOP of four digits and its dot-grouped
\* form identically: 2551, 2.551, 2556 and 2.556 are target CFOPs, while
\* 2552, 2.552, every other four digits and the empty string are not.
C15_CfopDotEquivalence ==
    ret.fn = "eh_cfop_alvo" =>
        \E cf \in {call.cfop} :
            /\ cf \in [1..4 -> CfopDigits] =>
                   /\ ret.value = eh_cfop_alvo(DotGrouped(cf))
                   /\ ret.value <=> cf \in {C2551, C2556}
            /\ cf \in {C2551, C2556, DotGrouped(C2551), DotGrouped(C2556)} => ret.value
            /\ cf \in {C2552, DotGrouped(C2552), <<>>} => ~ret.value

\* the dot-grouped 2.551 was classified as a target CFOP
C15_Witness ==
    /\ ret.fn = "eh_cfop_alvo"
    /\ call.cfop = <<"2",".","5","5","1">>
    /\ ret.value

(***************************************************************************)
(* The audit: items.                                                       *)
(***************************************************************************)
\* the parser state apart from the open document
Collections ==
    <<docs, obs_por_doc, ajustes_c197_all, ajustes_e111_all, ajustes_e115_all,
      ajustes_e116_all>>

\* the open document got exactly one more item, its last, and is otherwise
\* as before
OneItemAppended ==
    /\ current_doc' # <<>>
    /\ \E old \in {current_doc[1]}, new \in {current_doc'[1]} :
           /\ new.serie = old.serie /\ new.numero = old.numero /\ new.chave = old.chave
           /\ Len(new.itens) = Len(old.itens) + 1
           /\ SubSeq(new.itens, 1, Len(old.itens)) = old.itens

\* the item the step appended
LastItem == current_doc[1].itens[Len(current_doc[1].itens)]

\* C16: a C170 line arriving while a document is open appends exactly one
\* item to that document and changes no other document nor any collected
\* list, also when no candidate offset yields a CFOP or a positive value:
\* the item is then recorded with empty CFOP and value 0.0.  A C170 line
\* arriving while no document is open changes no state.
C16_C170AppendsOneItem ==
    [][\A raw \in Lines :
          Reads(raw) /\ IsRecord(raw, REC_C170) =>
              IF current_doc = <<>> THEN parser' = parser
              ELSE /\ OneItemAppended
                   /\ Collections' = Collections
                   /\ raw = L_C170_N =>
                          LastItem'.cfop = <<>> /\ LastItem'.vl_item = Zero]_vars

\* an item line before any document was ignored, and an item line without
\* CFOP and value was recorded in the open document
C16_Witness ==
    /\ text = <<L_C170_T, L_C100_A, L_C170_N>>
    /\ docs = <<>>
    /\ current_doc # <<>>
    /\ Len(current_doc[1].itens) = 1
    /\ LastItem.cfop = <<>> /\ LastItem.vl_item = Zero

(***************************************************************************)
(* The audit: E116 records and the exclusion list.                         *)
(***************************************************************************)
\* the line is an E116 record whose origin code (field 2) is on the
\* exclusion list
ExcludedOrigin(raw) ==
    /\ IsRecord(raw, REC_E116)
    /\ Upper(Strip(Field(Seen[raw].parts, 2))) \in EXCLUDE_CODES

\* C17: an E116 record whose origin code is on the exclusion list is never
\* counted as DIFAL evidence, whatever its collection code and free text
\* are: it is not among the accepted E116 adjustments, not in the
\* period-level fallback evidence, and when every E116 record of the file
\* is such a record no E116 row reaches the analysis table.
C17_ExcludedOriginNoEvidence ==
    pc = "done" =>
        /\ \A i \in DOMAIN text :
               ExcludedOrigin(text[i]) =>
                   \A e \in {NewE116(Seen[text[i]].parts)} :
                       /\ <<Or(e[4], e[1]), e[2], e[3]>> \notin Range(ajustes_e116_validos)
                       /\ <<REC_E116, Or(e[4], e[1]), e[2], e[3]>> \notin Range(evid_periodo)
        /\ (\A i \in DOMAIN text : IsRecord(text[i], REC_E116) => ExcludedOrigin(text[i]))
               => \A k \in DOMAIN df_analise.rows :
                      df_analise.rows[k]["Registro Ajuste"] # REC_E116

(***************************************************************************)
(* The audit: C197 adjustments and their documents.                        *)
(***************************************************************************)
\* the C197 lines between the i-th C100 line and the next one (or the end)
\* that the classifier accepts
AcceptedC197LinesOf(i) ==
    {k \in DOMAIN text :
        /\ IsRecord(text[k], REC_C197)
        /\ k > NthC100(i)
        /\ \A j \in C100Positions : j > NthC100(i) => k < j
        /\ \E a \in {NewC197(Seen[text[k]].parts, <<>>)} :
               eh_ajuste_difal(uf, REC_C197, a[1], a[2])}

\* the target items that rows cannot tell from p
Lookalikes(p) == {q \in TargetItems : ItemKey(q) = ItemKey(p)}

\* the analysis rows of the items with p's key that carry a C197
C197RowsOf(p) ==
    {j \in DOMAIN df_analise.rows :
        /\ RowItemKey(df_analise.rows[j]) = ItemKey(p)
        /\ df_analise.rows[j]["Registro Ajuste"] = REC_C197}

\* C18: a C197 adjustment is attributed only to the document opened by the
\* most recent C100 line before it: every 2551/2556 item has one analysis
\* row with a C197 per accepted C197 line of its own document and none for
\* a C197 line of another document or before any document, also when two
\* C100 lines carry the same or empty series, number and key (rows of items
\* that carry the same fields are counted together).
C18_C197OwnDocumentOnly ==
    pc = "done" =>
        \A p \in TargetItems :
            Cardinality(C197RowsOf(p)) =
                Cardinality(UNION {{<<q, k>> : k \in AcceptedC197LinesOf(q[1])} :
                                   q \in Lookalikes(p)})

(***************************************************************************)
(* The audit: agreement of the analysis and the unevidenced tables.        *)
(***************************************************************************)
\* the row is that of a 2551/2556 item of a finalized document
RowOfTargetItem(r) == \E p \in TargetItems : RowItemKey(r) = ItemKey(p)

\* C19: the analysis and the unevidenced tables agree for every file: every
\* item with CFOP 2551/2556 of a finalized document has at least one
\* analysis row, and it appears in the unevidenced table if and only if its
\* analysis rows are the single placeholder row with empty adjustment
\* fields; neither table has a row of another item (items that carry the
\* same fields are counted together).
C19_TablesAgree ==
    pc = "done" =>
        /\ \A p \in TargetItems :
               /\ AnalysisRowsOf(p) >= SameKey(p)
               /\ UnevidencedRowsOf(p) \in {0, SameKey(p)}
               /\ UnevidencedRowsOf(p) = SameKey(p)
                      <=> /\ AnalysisRowsOf(p) = SameKey(p)
                          /\ AnalysisRowsWith(p, Placeholder) = SameKey(p)
        /\ \A j \in DOMAIN df_analise.rows : RowOfTargetItem(df_analise.rows[j])
        /\ \A j \in DOMAIN df_sem.rows : RowOfTargetItem(df_sem.rows[j])

\* a document with two 2551 items and one other item was reported without
\* evidence: two placeholder rows and two unevidenced rows
C19_Witness ==
    /\ pc = "done"
    /\ Len(docs) = 1 /\ Len(docs[1].itens) = 3
    /\ Len(df_sem.rows) = 2
    /\ Len(df_analise.rows) = 2
    /\ \A j \in DOMAIN df_analise.rows : RowAdjustment(df_analise.rows[j]) = Placeholder

(***************************************************************************)
(* The audit: the summary status and the unevidenced table.                *)
(***************************************************************************)
\* C20: the summary status is "DIFAL OK" only if no 2551/2556 item is left
\* without evidence: whenever the status is "DIFAL OK" the unevidenced table
\* is empty, also when the only accepted adjustment is a C197 of another
\* document, or of no document, than the one holding the 2551/2556 item.
C20_OkOnlyIfAllEvidenced ==
    pc = "done" =>
        (df_resumo.rows[1]["Status"] = "DIFAL OK" => df_sem.rows = <<>>)

(***************************************************************************)
(* The audit: the checklist and the summary against the analysis table.    *)
(***************************************************************************)
\* some analysis row carries an adjustment that is not the placeholder
SomeRowEvidenced ==
    \E j \in DOMAIN df_analise.rows :
        RowAdjustment(df_analise.rows[j]) # Placeholder

\* C21: the checklist and the summary agree with the analysis table about
\* evidence: whenever some analysis row carries a non-placeholder adjustment,
\* also when the only one is the C195 "observation mentions DIFAL"
\* pseudo-adjustment, the checklist field "Tem código/ajuste DIFAL?" is "Sim"
\* and the summary status is not "DIFAL não apurado (há 2551/2556 sem
\* evidência)".
C21_ChecklistAgreesWithAnalysis ==
    pc = "done" =>
        (SomeRowEvidenced =>
            /\ df_check.rows[1]["Tem código/ajuste DIFAL?"] = "Sim"
            /\ df_resumo.rows[1]["Status"] #
                   "DIFAL não apurado (há 2551/2556 sem evidência)")

(***************************************************************************)
(* cte_parse: every detail row carries the fields of the last D100.        *)
(***************************************************************************)
\* line i of the file has record type rec
IsCteRecord(i, rec) == ~CteRead[text[i]].short /\ Reg(CteRead[text[i]]) = rec

\* the D100 lines before line i
D100Before(i) == {j \in 1..(i - 1) : IsCteRecord(j, REC_D100)}

\* the D190 lines among the first n that follow a D100
D190After(n) == {i \in 1..n : IsCteRecord(i, REC_D190) /\ D100Before(i) # {}}

\* the k-th of them
NthD190(n, k) ==
    CHOOSE i \in D190After(n) : Cardinality({j \in D190After(n) : j <= i}) = k

\* the most recent D100 line before line i
LastD100(i) == CHOOSE j \in D100Before(i) : \A l \in D100Before(i) : l <= j

\* the fields a row takes from a D100: key, series, number, date and totals
D100Fields ==
    {"Chave CT-e", "Série CT-e", "Número CT-e", "Data Emissão",
     "Valor Total CT-e (D100)", "BC ICMS CT-e (D100)", "Valor ICMS CT-e (D100)"}

\* row r carries the D100 fields of line j and the CST and CFOP of line i
RowOfLines(r, j, i) ==
    /\ \E d \in {D100Dict(cte_comp, CteRead[text[j]].campos)} :
           \A f \in D100Fields : r[f] = d[f]
    /\ r["CST CT-e"] = TextOr(CteRead[text[i]].campos, 2)
    /\ r["CFOP (D190)"] = TextOr(CteRead[text[i]].campos, 3)

\* the rows are those of the D190 lines among the first n that follow a D100,
\* in the order of the file, each with the fields of its most recent D100
RowsOfD190(rows, n) ==
    /\ Len(rows) = Cardinality(D190After(n))
    /\ \A k \in DOMAIN rows : RowOfLines(rows[k], LastD100(NthD190(n, k)), NthD190(n, k))

\* C22: in cte_parse every D190 line that follows a D100 produces exactly one
\* detail row, carrying the key, series, number, date and totals of the most
\* recent preceding D100; a D190 line before any D100 produces no row; each
\* new D100 replaces the previous context, so that no row mixes fields of two
\* D100 records.  It holds of the rows collected after every line and of the
\* returned detail table.
C22_D190CarriesLastD100 ==
    /\ pc = "cte_loop" => RowsOfD190(cte_todos, cte_idx)
    /\ pc = "cte_done" => RowsOfD190(cte_df.rows, Len(text))

\* a file with a D190 before any D100, then two D100 of different keys and a
\* D190 was parsed: the single row carries the fields of the second D100
C22_Witness ==
    /\ pc = "cte_done"
    /\ text = <<D_190_A, D_100_A, D_100_B, D_190_B>>
    /\ Len(cte_df.rows) = 1
    /\ cte_df.rows[1]["Chave CT-e"] = <<"K","B">>
    /\ cte_df.rows[1]["Data Emissão"] = <<"0","3","0","2","2","4">>

====
